---- MODULE Spec2Model ----
(***************************************************************************)
(* Verification model of the per-call voice pipeline of the voice agent:   *)
(*   src/src/sdr_agent/pipeline.py      InteractivePipeline                *)
(*   src/src/sdr_agent/telephony/media_stream.py   MediaStreamHandler      *)
(*   src/src/comfyui_tts.py             ComfyUITTS / StreamingComfyUITTS   *)
(*   src/src/sdr_agent/server.py        media_stream.agent_handler         *)
(*   src/src/turn_detector.py           TurnDetector, get_turn_detector    *)
(*   src/src/sdr_agent/agent/tools.py   _current_context                   *)
(*                                                                         *)
(* The tasks of a session are asyncio coroutines: a step of the model is   *)
(* the code a task runs between two suspension points.  Variables whose    *)
(* name starts with g_ are history variables used only to state claims.    *)
(*                                                                         *)
(* Time.  feed_stt is modelled on a millisecond clock (vad_now).  The turn *)
(* controller is modelled in units of 100 ms (names ending in _DS): every  *)
(* timestamp x it keeps is only ever used as time.time() - x, so the model *)
(* keeps that age instead (-1 stands for the value 0, "not set"); an age   *)
(* stops counting at a cap above every threshold it is compared with.      *)
(***************************************************************************)
EXTENDS Integers, Sequences, FiniteSets, TLC

(***************************************************************************)
(* Bounds of the model (not program constants).                            *)
(***************************************************************************)
MaxTexts == 3
MaxSentences == 2
MaxChunksPerText == 2
MaxVoiceFrames == 12
MaxQuietFrames == 3
MaxFinals == 2
MaxAgentLatency == 16
NumSessions == 2
MaxSessTurns == 1
MaxFrames == 4
NumKeys == 2
NumCallers == 2
MaxBinderCalls == 4
MaxPhoneCalls == 3
NumRecCalls == 1
NumLeads == 2
MaxDuration == 10
MaxHangResponses == 2
MaxMediaFrames == 4
MaxEngTexts == 3
MaxTokens == 4
MaxLoudFrames == 300
MaxSoftFrames == 1280
MaxSttChunks == 7

(***************************************************************************)
(* Program constants.                                                      *)
(***************************************************************************)
CHUNK_DURATION_MS == 100
FRAME_MS == 20
VAD_SILENCE == 0
VAD_STARTING == 1
VAD_SPEAKING == 2
VAD_STOPPING == 3
VAD_INTERRUPT_DURATION_MS == 200
VAD_WINDOW == 1500
VAD_MIN_SAMPLES == 50
VAD_DEFAULT_THRESHOLD == 500
VAD_THRESHOLD_MIN == 300
VAD_THRESHOLD_MAX == 2000
GREETING_ECHO_COOLDOWN_MS == 3000
TICK_DS == 3
SILENCE_FALLBACK_DELAY_DS == 12
MAX_BUFFER_AGE_DS == 25
NO_INPUT_TIMEOUT_DS == 50
SHORT_INPUT_THRESHOLD == 4
SHORT_INPUT_EOT_THRESHOLD_PCT == 15
EOT_THRESHOLD_PCT == 30
GREETING_ECHO_COOLDOWN_DS == 30
GREETING_DURATION_DS == 40
GREETING_WAIT_DS == 20
AGENT_TIMEOUT_DS == 300
MAX_HISTORY == 4
MIN_DURATION_FOR_RETRY == 10
MAX_RETRIES == 2

\* CallRecoveryHandler.RETRY_DELAY, in seconds
RETRY_DELAY == 300

\* StreamingWhisperSTT: silence_threshold (RMS), silence_duration (ms), and the
\* minimum duration of _transcribe (ms)
SILENCE_THRESHOLD == 500
SILENCE_DURATION_MS == 800
MIN_TRANSCRIBE_MS == 300
MIN_CHUNK_LENGTH == 15
MAX_CHUNK_LENGTH == 200
HANGUP_MIN_TTS_DS == 30
HANGUP_DS_PER_WORD == 4
HANGUP_GRACE_DS == 10
APOLOGY_SENTENCES == 2
TROUBLE_SENTENCES == 2

FramesPerChunk ==
    CHUNK_DURATION_MS \div FRAME_MS

\* caps of the ages kept by the turn controller
SilenceCap ==
    SILENCE_FALLBACK_DELAY_DS + TICK_DS + 1

BufferCap ==
    MAX_BUFFER_AGE_DS + TICK_DS + 1

NoInputCap ==
    NO_INPUT_TIMEOUT_DS + TICK_DS + 1

VARIABLES
    \* ---- TTS adapter (ComfyUITTS) and TTS worker (_tts_loop)
    tts_text_queue,       \* ComfyUITTS._text_queue: pending texts
    tts_gen,              \* text inside _generate (NoText: worker waits on get())
    next_text,            \* id given to the next text sent to TTS
    next_chunk,           \* sequence number of the next TTS audio chunk
    \* ---- outbound audio
    audio_output_queue,   \* InteractivePipeline._audio_output_queue
    send_cur,             \* chunk inside MediaStreamHandler._send_audio
    send_left,            \* 20 ms frames of send_cur still to send
    speaking,             \* InteractivePipeline._speaking
    feed_pc,              \* feed_stt: "run" | "intr" (inside _handle_interrupt)
    \* ---- feed_stt (VAD barge-in detector); times in ms
    vad_state,            \* VAD_SILENCE .. VAD_STOPPING
    voice_start_time,     \* time of the frame that started the episode
    vad_triggered,        \* interrupt already fired in this episode
    audio_levels,         \* deque(maxlen=1500) of RMS values
    in_frames,            \* RMS of the inbound frames still to arrive
    vad_now,              \* time.time() at the frame being processed
    cooldown_until_ms,    \* _greeting_cooldown_until as seen by feed_stt
    \* ---- _stt_loop (turn controller) and silence_checker (ticker)
    greet_pc,             \* process_audio: "pending" | "done" (greeting sent)
    cooldown_left,        \* _greeting_cooldown_until - now, 0 when over
    call_elapsed,         \* now - session_data["call_start_time"], capped
    stt_queue,            \* finals emitted by the STT adapter, not yet consumed
    finals_left,          \* finals the caller will still produce
    stt_pc,               \* _stt_loop: "idle" | "intr" | "agent"
    stt_cur,              \* transcript held across _handle_interrupt
    turn_buffer,          \* list of fragments
    last_transcript_age,  \* now - last_transcript_time
    buffer_start_age,     \* now - buffer_start_time
    last_agent_spoke_age, \* now - last_agent_spoke_time
    waiting_for_response,
    no_input_fallback_triggered,
    tick_pc,              \* silence_checker: "sleep" | "agent"
    tick_left,            \* time left of asyncio.sleep(0.3)
    stt_agent_elapsed,    \* time since _stt_loop called agent_handler (-1: none)
    tick_agent_elapsed,   \* time since silence_checker called it (-1: none)
    \* ---- history variables
    g_vad_fired,          \* interrupts fired by the VAD
    g_voice_frames,       \* k: leading frames at or above the threshold
    g_frames_fed,         \* frames processed by feed_stt
    g_levels_seen,        \* the RMS of every frame processed by feed_stt, in order
    g_threshold_x2,       \* twice the threshold computed for the last frame (0: none)
    g_echo_dropped,       \* fragments skipped by _stt_loop inside the greeting cooldown
    g_input_age,          \* time since the last fragment or barge-in (-1: none yet)
    g_texts_at_fragment,  \* next_text when the last fragment arrived (0: none yet)
    g_fired_at,           \* g_frames_fed when the VAD last fired
    g_silence_since_fire, \* vad_state was VAD_SILENCE after the last firing
    g_refired_early,      \* fired again before returning to VAD_SILENCE
    g_intr_texts,         \* highest text id sent to TTS before the last interrupt
    g_intr_chunks,        \* highest chunk number queued before the last interrupt
    g_intr_sent,          \* highest chunk number with a frame sent before the last clear
    g_sent_max,           \* highest chunk number with a frame sent so far
    g_last_frame,         \* chunk of the last media frame sent since the last clear
    g_cleared,            \* a clear event has been sent
    g_arrived,            \* fragments received outside the cooldown since the last commit
    g_turn,               \* text of the last committed turn
    g_turn_arrived,       \* g_arrived when the last turn was committed
    g_commits,            \* turns committed by process_buffered_turn
    g_runs,               \* agent runs started by agent_handler
    g_wd_fired,           \* the no-input watchdog has fired
    g_resp_since,         \* an agent turn was queued to TTS since it last fired
    g_done_since,         \* an agent turn was played to its end since it last fired
    g_refire_ok,          \* every firing but the first followed a queued agent turn
    g_refire_played,      \* every firing but the first followed a fully played agent turn
    g_followups,          \* follow-ups emitted since the agent last finished speaking
    g_played_age,         \* time since the agent finished speaking (-1: it has not)
    g_early_followup,     \* a follow-up came less than 5 s after the agent finished
    g_timeouts,           \* agent invocations that timed out
    \* ---- the server process: sessions and module-level state
    sess_pc,              \* per session: "new" | "start" | "listen" | "agent" | "ended"
    agent_mode,           \* AGENT_MODE of the server process
    sess_lead,            \* per session: LeadRepository.get found the lead of the call
    sess_turns,           \* per session: caller turns committed
    detector_history,     \* turn_detector._detector._history
    current_context,      \* tools._current_context: owner of the object, 0 for None
    call_context,         \* per session: session_data["call_context"]
    healthcare_context,   \* per session: session_data["healthcare_context"]
    run_end_call,         \* per session: the end_call tool call of the run in progress
    g_last_run,           \* per session: run_end_call of its last completed run
    should_hangup,        \* per session: session_data["should_hangup"]
    g_foreign_history,    \* predict_eot ran on messages of another session
    g_foreign_context,    \* should_end_call read the context of another session
    g_own_end,            \* per session: its agent called end_call or said goodbye
    \* ---- one provider connection: MediaStreamHandler.handle_connection
    ws_state,             \* the provider's WebSocket: "open" | "closed"
    frames_left,          \* frames the provider will still send
    recv_pc,              \* receive_from_twilio: "run" | "done" | "crashed"
    session_set,          \* session is not None (a start event was received)
    registered,           \* the call is in active_sessions
    on_call_end_calls,    \* times on_call_end was invoked
    audio_queue,          \* audio_queue: "pcm" items and the None marker "end"
    conn_feed,            \* feed_stt: "run" | "done"
    input_done,           \* pipeline._input_done
    stt_audio,            \* the STT adapter holds audio not yet transcribed
    stt_closed,           \* WhisperSTT._closed
    conn_stt,             \* _stt_loop: "wait" | "agent" | "done"
    conn_buffered,        \* turn_buffer is not empty
    conn_tick,            \* silence_checker: "sleep" | "agent" | "done"
    conn_texts,           \* tts._text_queue: "text" items and the None marker "end"
    tts_closed,           \* ComfyUITTS._closed
    conn_tts,             \* _tts_loop: "wait" | "gen" | "done"
    conn_out,             \* pipeline._audio_output_queue: "chunk" items and "end"
    conn_main,            \* process_and_send driving process_audio: "loop" | "send" |
                          \* "grace" | "cleanup" | "closing" | "finished" | "abandoned"
    \* ---- the thread binder: ThreadMappingService over its sqlite table
    thread_mappings,      \* rows of table thread_mappings, in insertion order
    uuid_next,            \* the next value uuid4 / threads.create hands out
    bind_pc,              \* per caller: the binder call it is in and where
    bind_result,          \* per caller: how its last binder call ended
    bind_calls,           \* binder calls started so far
    g_ever_active,        \* per key: thread ids that have been active for it
    g_bound,              \* per key: id the last successful call returned (0: none)
    phone_thread,         \* per session: session_data["thread_id"] (0: not set)
    phone_of,             \* per session: session.to_number (0: no call open)
    phone_calls,          \* calls started so far
    g_invoked,            \* per phone number: thread ids runs.wait was called with
    \* ---- CallRecoveryHandler
    active_calls,         \* _active_calls: per call id its CallState, or NotRegistered
    retry_counts,         \* _retry_counts: per lead, 0 when the lead has no entry
    rec_last,             \* the last handle_disconnect: its inputs and what it did
    \* ---- the hangup timer of one session (server.media_stream)
    hang_flag,            \* session_data["should_hangup"] of the session
    hang_timers,          \* pending hangup_after_delay tasks: time left of their sleep
    hang_requests,        \* end-call requests sent to the call-control API
    hang_responses,       \* agent responses returned so far
    g_hang_age,           \* time since the response that set should_hangup (-1: not set)
    g_hang_delay,         \* the delay computed from that response
    g_hang_early,         \* a request was sent before that delay had passed
    \* ---- the inbound audio frames of one connection
    media_in,             \* inbound media frames received so far (the n-th frame has id n)
    media_queue,          \* audio_queue as frame ids, 0 for the None marker
    media_recv,           \* receive_from_twilio: "run", "crashed" or "done"
    media_feed,           \* feed_stt: "run" or "done"
    vad_seen,             \* ids of the frames whose RMS entered audio_levels
    stt_seen,             \* ids of the frames passed to stt.add_audio
    discard_log,          \* ids of the frames whose loss was reported
    g_enqueued,           \* ids of the frames put on audio_queue, in order
    \* ---- one TTS engine and the interrupt handler
    tts_engine,           \* PipelineConfig.tts_engine
    eng_text_queue,       \* tts._text_queue: text ids, 0 for the None marker
    eng_closed,           \* tts._closed
    eng_done,             \* receive_events of the engine has ended
    eng_generating,       \* the text inside _generate (0: none)
    eng_out,              \* pipeline._audio_output_queue: the text id of each chunk
    eng_speaking,         \* pipeline._speaking
    eng_texts,            \* texts sent to the engine so far
    eng_intr,             \* the caller of _handle_interrupt: "idle" or "on_interrupt"
    eng_steps,            \* the interrupt steps run by the last barge-in, in order
    g_bargeins,           \* barge-ins so far
    g_clear_row,          \* clear_queue calls directly after one another (capped at 2)
    g_clear_removed,      \* items removed by the first call of that row
    \* ---- the sentence splitter on one response
    sp_text,              \* the response text, as tokens
    sp_pc,                \* "text", "split" (split once) or "resplit" (joined and split again)
    sp_chunks,            \* split_for_tts(text)
    sp_again,             \* split_for_tts(" ".join(sp_chunks))
    \* ---- StreamingWhisperSTT and WhisperSTT (whisper_stt.py)
    w_chunks_left,        \* chunks the feeder will still pass to add_audio
    w_next_id,            \* number of the next chunk passed to add_audio
    w_buffer,             \* WhisperSTT.audio_buffer: chunks as [id, ms]
    w_requested,          \* WhisperSTT._transcribe_requested is set
    w_closed,             \* WhisperSTT._closed
    w_pc,                 \* receive_events: "wait" | "transcribing" | "yield" | "done"
    w_run,                \* audio handed to the recognizer run in progress
    w_events,             \* STTOutputEvents yielded
    w_has_speech,         \* StreamingWhisperSTT._has_speech
    w_silence_age,        \* now - _silence_start (-1: None)
    g_speech_since_request,\* a chunk at or above the threshold since the last request
    g_quiet_ms,           \* time since the first chunk of the current run of chunks below the threshold (-1: none)
    g_add_requested,      \* the last add_audio requested recognition
    g_accepted,           \* ids of the chunks add_audio put into the buffer
    g_recognized,         \* ids of the chunks handed to a recognizer run
    g_short               \* ids of the chunks dropped as audio shorter than 300 ms

ttsVars == <<tts_text_queue, tts_gen, next_text, next_chunk>>

sendVars == <<audio_output_queue, send_cur, send_left>>

pipeGhost == <<g_intr_texts, g_intr_chunks, g_intr_sent, g_sent_max, g_last_frame, g_cleared>>

vadVars == <<vad_state, voice_start_time, vad_triggered, audio_levels, in_frames,
             vad_now, cooldown_until_ms>>

feedGhost == <<g_vad_fired, g_voice_frames, g_frames_fed, g_levels_seen, g_threshold_x2, g_fired_at,
              g_silence_since_fire, g_refired_early>>

vadGhost == <<feedGhost, g_echo_dropped, g_input_age, g_texts_at_fragment>>

clockVars == <<cooldown_left, call_elapsed, last_transcript_age, buffer_start_age,
               last_agent_spoke_age, tick_left, stt_agent_elapsed, tick_agent_elapsed>>

bufVars == <<turn_buffer, waiting_for_response, no_input_fallback_triggered>>

ctlVars == <<greet_pc, stt_queue, finals_left, stt_pc, stt_cur, tick_pc>>

turnGhost == <<g_arrived, g_turn, g_turn_arrived, g_commits, g_runs>>

wdGhost == <<g_wd_fired, g_resp_since, g_done_since, g_refire_ok, g_refire_played,
             g_followups, g_played_age, g_early_followup, g_timeouts>>

turnVars == <<clockVars, bufVars, ctlVars, turnGhost, wdGhost>>

sessVars == <<agent_mode, sess_pc, sess_lead, sess_turns, detector_history,
              current_context, call_context, healthcare_context, run_end_call,
              should_hangup, g_foreign_history, g_foreign_context, g_own_end,
              g_last_run>>

callVars == <<ttsVars, sendVars, speaking, feed_pc, pipeGhost, vadVars, vadGhost, turnVars>>

connVars == <<ws_state, frames_left, recv_pc, session_set, registered, on_call_end_calls,
              audio_queue, conn_feed, input_done, stt_audio, stt_closed, conn_stt,
              conn_buffered, conn_tick, conn_texts, tts_closed, conn_tts, conn_out,
              conn_main>>

binderVars == <<thread_mappings, uuid_next, bind_pc, bind_result, bind_calls,
                g_ever_active, g_bound, phone_thread, phone_of, phone_calls,
                g_invoked>>

recVars == <<active_calls, retry_counts, rec_last>>

hangVars == <<hang_flag, hang_timers, hang_requests, hang_responses, g_hang_age, g_hang_delay, g_hang_early>>

frameVars == <<media_in, media_queue, media_recv, media_feed, vad_seen, stt_seen, discard_log, g_enqueued>>

engVars == <<tts_engine, eng_text_queue, eng_closed, eng_done, eng_generating, eng_out,
             eng_speaking, eng_texts, eng_intr, eng_steps, g_bargeins, g_clear_row,
             g_clear_removed>>

splitVars == <<sp_text, sp_pc, sp_chunks, sp_again>>

sttVars == <<w_chunks_left, w_next_id, w_buffer, w_requested, w_closed, w_pc, w_run,
             w_events, w_has_speech, w_silence_age, g_speech_since_request, g_quiet_ms,
             g_add_requested, g_accepted, g_recognized, g_short>>

\* what the actions of one part of the model leave alone
offCall == <<sessVars, connVars, binderVars, recVars, hangVars, frameVars, engVars, splitVars, sttVars>>

offSess == <<callVars, connVars, binderVars, recVars, hangVars, frameVars, engVars, splitVars, sttVars>>

offConn == <<callVars, sessVars, binderVars, recVars, hangVars, frameVars, engVars, splitVars, sttVars>>

offBinder == <<callVars, sessVars, connVars, recVars, hangVars, frameVars, engVars, splitVars, sttVars>>

offRec == <<callVars, sessVars, connVars, binderVars, hangVars, frameVars, engVars, splitVars, sttVars>>

offHang == <<callVars, sessVars, connVars, binderVars, recVars, frameVars, engVars, splitVars, sttVars>>

offFrame == <<callVars, sessVars, connVars, binderVars, recVars, hangVars, engVars, splitVars, sttVars>>

offEng == <<callVars, sessVars, connVars, binderVars, recVars, hangVars, frameVars, splitVars, sttVars>>

offSplit == <<callVars, sessVars, connVars, binderVars, recVars, hangVars, frameVars, engVars, sttVars>>

offStt == <<callVars, sessVars, connVars, binderVars, recVars, hangVars, frameVars, engVars, splitVars>>

vars == <<callVars, sessVars, connVars, binderVars, recVars, hangVars, frameVars, engVars, splitVars, sttVars>>

NoText ==
    [id |-> 0, kind |-> "none"]

NoChunk ==
    [text |-> 0, kind |-> "none", seq |-> 0]

RECURSIVE MakeChunks(_, _, _)
\* StreamingComfyUITTS.receive_events: the audio of one text cut into n chunks
MakeChunks(text, first, n) ==
    IF n = 0 THEN <<>>
    ELSE <<[text |-> text.id, kind |-> text.kind, seq |-> first]>>
            \o MakeChunks(text, first + 1, n - 1)

RECURSIVE MakeTexts(_, _, _)
\* the n sentences of one utterance, numbered from first
MakeTexts(first, n, kind) ==
    IF n = 0 THEN <<>>
    ELSE <<[id |-> first, kind |-> kind]>> \o MakeTexts(first + 1, n - 1, kind)

Min2(a, b) ==
    IF a < b THEN a ELSE b

Max2(a, b) ==
    IF a > b THEN a ELSE b

(***************************************************************************)
(* tts.send_text for each of the n chunks of an utterance: the queue is    *)
(* unbounded, so the puts do not suspend and the loop is one step.         *)
(***************************************************************************)
SendTexts(n, kind) ==
    /\ tts_text_queue' = tts_text_queue \o MakeTexts(next_text, n, kind)
    /\ next_text' = next_text + n

(***************************************************************************)
(* process_buffered_turn, from the agent's answer on, as seen by the       *)
(* outbound path: speaking is set and the sentences of the response are    *)
(* queued to TTS.                                                          *)
(***************************************************************************)
Respond(n) ==
    /\ next_text + n - 1 <= MaxTexts
    /\ speaking' = TRUE
    /\ SendTexts(n, "response")
    /\ UNCHANGED <<tts_gen, next_chunk, sendVars, feed_pc, pipeGhost>>
    /\ UNCHANGED <<vadVars, vadGhost, turnVars>>
    /\ UNCHANGED offCall

(***************************************************************************)
(* ComfyUITTS.receive_events: the worker, woken on get(), takes the next   *)
(* text and suspends in _generate (run_in_executor).                       *)
(***************************************************************************)
TTSTake ==
    /\ tts_gen = NoText
    /\ tts_text_queue # <<>>
    /\ tts_gen' = Head(tts_text_queue)
    /\ tts_text_queue' = Tail(tts_text_queue)
    /\ UNCHANGED <<next_text, next_chunk, sendVars, speaking, feed_pc, pipeGhost>>
    /\ UNCHANGED <<vadVars, vadGhost, turnVars>>
    /\ UNCHANGED offCall

(***************************************************************************)
(* _generate returns: n = 0 is a failed synthesis (None), otherwise the    *)
(* audio is re-chunked and every chunk is put on the output queue by       *)
(* _tts_loop; the worker then takes the next text at once when one is      *)
(* queued (get() on a non-empty queue does not suspend).                   *)
(***************************************************************************)
TTSYield(n) ==
    /\ tts_gen # NoText
    /\ audio_output_queue' = audio_output_queue \o MakeChunks(tts_gen, next_chunk, n)
    /\ next_chunk' = next_chunk + n
    /\ IF tts_text_queue # <<>>
       THEN /\ tts_gen' = Head(tts_text_queue)
            /\ tts_text_queue' = Tail(tts_text_queue)
       ELSE /\ tts_gen' = NoText
            /\ UNCHANGED tts_text_queue
    /\ UNCHANGED <<next_text, send_cur, send_left, speaking, feed_pc, pipeGhost>>
    /\ UNCHANGED <<vadVars, vadGhost, turnVars>>
    /\ UNCHANGED offCall

(***************************************************************************)
(* process_audio yields a chunk to process_and_send, which enters          *)
(* _send_audio with it.                                                    *)
(***************************************************************************)
SenderTake ==
    /\ send_cur = NoChunk
    /\ audio_output_queue # <<>>
    /\ send_cur' = Head(audio_output_queue)
    /\ send_left' = FramesPerChunk
    /\ audio_output_queue' = Tail(audio_output_queue)
    /\ UNCHANGED <<ttsVars, speaking, feed_pc, pipeGhost>>
    /\ UNCHANGED <<vadVars, vadGhost, turnVars>>
    /\ UNCHANGED offCall

(***************************************************************************)
(* _send_audio: one media frame is sent, then the sender sleeps 20 ms.     *)
(***************************************************************************)
SendFrame ==
    /\ send_cur # NoChunk
    /\ send_left > 0
    /\ g_last_frame' = send_cur
    /\ g_sent_max' = Max2(send_cur.seq, g_sent_max)
    /\ send_left' = send_left - 1
    /\ send_cur' = IF send_left = 1 THEN NoChunk ELSE send_cur
    /\ UNCHANGED <<ttsVars, audio_output_queue, speaking, feed_pc,
                   g_intr_texts, g_intr_chunks, g_intr_sent, g_cleared>>
    /\ UNCHANGED <<vadVars, vadGhost, turnVars>>
    /\ UNCHANGED offCall

(***************************************************************************)
(* _handle_interrupt up to its suspension in send_clear: the TTS text      *)
(* queue and the output queue are drained and clear goes to the provider.  *)
(* Neither the synthesis in flight nor the chunk the sender is pacing is   *)
(* touched.                                                                *)
(***************************************************************************)
HandleInterrupt ==
    /\ tts_text_queue' = <<>>
    /\ audio_output_queue' = <<>>
    /\ g_intr_texts' = next_text - 1
    /\ g_intr_chunks' = next_chunk - 1
    /\ g_intr_sent' = g_sent_max
    /\ g_last_frame' = NoChunk
    /\ g_cleared' = TRUE
    /\ UNCHANGED <<tts_gen, next_text, next_chunk, send_cur, send_left, g_sent_max>>

\* the caller says nothing while an agent invocation is overdue
CallerMaySpeak ==
    /\ stt_agent_elapsed <= MaxAgentLatency
    /\ tick_agent_elapsed <= MaxAgentLatency

(***************************************************************************)
(* feed_stt: the VAD has decided to interrupt (the decision itself is      *)
(* modelled by FeedFrame); the feed task runs _handle_interrupt.  The VAD  *)
(* runs only while the agent is speaking, outside the greeting cooldown,   *)
(* and feed_stt is started after the greeting has been sent.               *)
(***************************************************************************)
BargeIn ==
    /\ feed_pc = "run"
    /\ greet_pc = "done"
    /\ speaking
    /\ cooldown_left = 0
    /\ CallerMaySpeak
    /\ HandleInterrupt
    /\ feed_pc' = "intr"
    /\ g_played_age' = -1
    /\ g_input_age' = 0
    /\ UNCHANGED speaking
    /\ UNCHANGED <<vadVars, feedGhost, g_echo_dropped, g_texts_at_fragment>>
    /\ UNCHANGED <<clockVars, bufVars, ctlVars, turnGhost>>
    /\ UNCHANGED <<g_wd_fired, g_resp_since, g_done_since, g_refire_ok, g_refire_played,
                   g_followups, g_early_followup, g_timeouts>>
    /\ UNCHANGED offCall

(***************************************************************************)
(* feed_stt after _handle_interrupt returned: speaking is cleared.         *)
(***************************************************************************)
BargeInEnd ==
    /\ feed_pc = "intr"
    /\ feed_pc' = "run"
    /\ speaking' = FALSE
    /\ UNCHANGED <<ttsVars, sendVars, pipeGhost>>
    /\ UNCHANGED <<vadVars, vadGhost, turnVars>>
    /\ UNCHANGED offCall

(***************************************************************************)
(* get_adaptive_threshold, times two (the multiplier is 1.5): below 50     *)
(* samples the default 500, else 1.5 x sorted(levels)[int(len * 0.85)]     *)
(* clamped to [300, 2000].                                                 *)
(***************************************************************************)
Percentile85(levels) ==
    LET n == Len(levels)
        idx == (n * 85) \div 100
    IN  CHOOSE v \in {levels[i] : i \in 1..n} :
            /\ Cardinality({i \in 1..n : levels[i] < v}) <= idx
            /\ Cardinality({i \in 1..n : levels[i] <= v}) > idx

\* get_adaptive_threshold with the default kept for one more sample
get_adaptive_threshold_x2_late(levels) ==
    IF Len(levels) <= VAD_MIN_SAMPLES
    THEN 2 * VAD_DEFAULT_THRESHOLD
    ELSE Max2(2 * VAD_THRESHOLD_MIN,
              Min2(3 * Percentile85(levels), 2 * VAD_THRESHOLD_MAX))

get_adaptive_threshold_x2(levels) ==
    IF Len(levels) < VAD_MIN_SAMPLES
    THEN 2 * VAD_DEFAULT_THRESHOLD
    ELSE Max2(2 * VAD_THRESHOLD_MIN,
              Min2(3 * Percentile85(levels), 2 * VAD_THRESHOLD_MAX))

\* collections.deque(maxlen=1500).append
DequeAppend(levels, rms) ==
    IF Len(levels) >= VAD_WINDOW
    THEN Append(Tail(levels), rms)
    ELSE Append(levels, rms)

(***************************************************************************)
(* The VAD state machine of feed_stt for one frame, as a function of the   *)
(* comparison of the frame's RMS with the threshold.  Returns the new      *)
(* state, voice start time, triggered flag and whether _handle_interrupt   *)
(* is called.                                                              *)
(***************************************************************************)
VadStep(st, start, trig, rms2, thr2, t, spk, in_cooldown) ==
    IF spk /\ ~in_cooldown
    THEN CASE st = VAD_SILENCE ->
                IF rms2 > thr2
                THEN [st |-> VAD_STARTING, start |-> t, trig |-> trig, fire |-> FALSE]
                ELSE [st |-> st, start |-> start, trig |-> trig, fire |-> FALSE]
           [] st = VAD_STARTING ->
                IF rms2 > thr2
                THEN IF t - start >= VAD_INTERRUPT_DURATION_MS
                     THEN [st |-> VAD_SPEAKING, start |-> start, trig |-> TRUE,
                           fire |-> ~trig]
                     ELSE [st |-> st, start |-> start, trig |-> trig, fire |-> FALSE]
                ELSE [st |-> VAD_SILENCE, start |-> start, trig |-> trig, fire |-> FALSE]
           [] st = VAD_SPEAKING ->
                IF rms2 < thr2
                THEN [st |-> VAD_STOPPING, start |-> start, trig |-> trig, fire |-> FALSE]
                ELSE [st |-> st, start |-> start, trig |-> trig, fire |-> FALSE]
           [] OTHER ->
                IF rms2 > thr2
                THEN [st |-> VAD_SPEAKING, start |-> start, trig |-> trig, fire |-> FALSE]
                ELSE [st |-> VAD_SILENCE, start |-> start, trig |-> FALSE, fire |-> FALSE]
    ELSE IF ~spk
         THEN [st |-> VAD_SILENCE, start |-> start, trig |-> FALSE, fire |-> FALSE]
         ELSE [st |-> st, start |-> start, trig |-> trig, fire |-> FALSE]

(***************************************************************************)
(* feed_stt: one iteration of the loop over the inbound 20 ms frames.      *)
(* When the VAD fires, the task enters _handle_interrupt and suspends in   *)
(* it; speaking is cleared by BargeInEnd.                                  *)
(***************************************************************************)
FeedFrame ==
    /\ feed_pc = "run"
    /\ in_frames # <<>>
    /\ LET rms == Head(in_frames)
           levels == DequeAppend(audio_levels, rms)
           thr2 == get_adaptive_threshold_x2(levels)
           in_cooldown == cooldown_until_ms > 0 /\ vad_now < cooldown_until_ms
           r == VadStep(vad_state, voice_start_time, vad_triggered, 2 * rms, thr2,
                        vad_now, speaking, in_cooldown)
       IN  /\ audio_levels' = levels
           /\ vad_state' = r.st
           /\ voice_start_time' = r.start
           /\ vad_triggered' = r.trig
           /\ IF r.fire
              THEN /\ HandleInterrupt
                   /\ feed_pc' = "intr"
                   /\ g_vad_fired' = g_vad_fired + 1
                   /\ g_fired_at' = g_frames_fed + 1
                   /\ g_refired_early' = (g_refired_early
                                            \/ (g_vad_fired > 0 /\ ~g_silence_since_fire))
                   /\ g_silence_since_fire' = FALSE
              ELSE /\ UNCHANGED <<ttsVars, sendVars, pipeGhost, feed_pc>>
                   /\ UNCHANGED <<g_vad_fired, g_fired_at, g_refired_early>>
                   /\ g_silence_since_fire' = (g_silence_since_fire \/ r.st = VAD_SILENCE)
    /\ in_frames' = Tail(in_frames)
    /\ vad_now' = vad_now + FRAME_MS
    /\ g_frames_fed' = g_frames_fed + 1
    /\ g_levels_seen' = Append(g_levels_seen, Head(in_frames))
    /\ g_threshold_x2' = get_adaptive_threshold_x2(DequeAppend(audio_levels, Head(in_frames)))
    /\ UNCHANGED <<speaking, cooldown_until_ms, g_voice_frames, g_echo_dropped,
                   g_input_age, g_texts_at_fragment>>
    /\ UNCHANGED turnVars
    /\ UNCHANGED offCall

(***************************************************************************)
(* Text.  A transcript is a sequence of one-character strings.             *)
(***************************************************************************)
RECURSIVE LStrip(_)
LStrip(s) ==
    IF s # <<>> /\ Head(s) = " " THEN LStrip(Tail(s)) ELSE s

RECURSIVE RStrip(_)
RStrip(s) ==
    IF s # <<>> /\ s[Len(s)] = " " THEN RStrip(SubSeq(s, 1, Len(s) - 1)) ELSE s

\* str.strip()
Strip(s) ==
    RStrip(LStrip(s))

\* pattern in transcript (substring test)
ContainsPattern(s, p) ==
    \E i \in 1..Len(s) :
        /\ i + Len(p) - 1 <= Len(s)
        /\ \A j \in 1..Len(p) : s[i + j - 1] = p[j]

\* SILENCE_PATTERNS, of which the model's alphabet can spell "..."
SILENCE_PATTERNS ==
    {<<".", ".", ".">>}

IsSilenceIndicator(s) ==
    \E p \in SILENCE_PATTERNS : ContainsPattern(s, p)

RECURSIVE JoinSpace(_)
\* " ".join(turn_buffer)
JoinSpace(buf) ==
    IF buf = <<>> THEN <<>>
    ELSE IF Len(buf) = 1 THEN buf[1]
    ELSE buf[1] \o <<" ">> \o JoinSpace(Tail(buf))

\* len(combined_text.split())
WordCount(s) ==
    Cardinality({i \in 1..Len(s) : s[i] # " " /\ (i = 1 \/ s[i - 1] = " ")})

\* finals the STT adapter may emit: "a", " b c d e f", "e...", "..." and " "
RawFinals ==
    {<<"a">>, <<" ", "b", " ", "c", " ", "d", " ", "e", " ", "f">>,
     <<"e", ".", ".", ".">>, <<".", ".", ".">>, <<" ">>}

\* EOT probabilities (percent) the classifier may return
EotValues ==
    {10, 15, 22, 30, 55}

\* one threshold for inputs of every length
FlatThreshold(word_count) ==
    EOT_THRESHOLD_PCT

\* the short-input fast track of _stt_loop
EffectiveThreshold(word_count) ==
    IF word_count <= SHORT_INPUT_THRESHOLD
    THEN SHORT_INPUT_EOT_THRESHOLD_PCT
    ELSE EOT_THRESHOLD_PCT

Bump(age, cap) ==
    IF age = -1 THEN -1 ELSE Min2(age + 1, cap)

(***************************************************************************)
(* Session start (process_audio before the greeting; server.media_stream). *)
(***************************************************************************)
InitTurn ==
    /\ greet_pc = "pending"
    /\ cooldown_left = 0
    /\ call_elapsed = 0
    /\ stt_queue = <<>>
    /\ finals_left = MaxFinals
    /\ stt_pc = "idle"
    /\ stt_cur = <<>>
    /\ turn_buffer = <<>>
    /\ last_transcript_age = -1
    /\ buffer_start_age = -1
    /\ last_agent_spoke_age = -1
    /\ waiting_for_response = FALSE
    /\ no_input_fallback_triggered = FALSE
    /\ tick_pc = "sleep"
    /\ tick_left = TICK_DS
    /\ stt_agent_elapsed = -1
    /\ tick_agent_elapsed = -1
    /\ g_arrived = <<>>
    /\ g_turn = <<>>
    /\ g_turn_arrived = <<>>
    /\ g_commits = 0
    /\ g_runs = 0
    /\ g_wd_fired = FALSE
    /\ g_resp_since = FALSE
    /\ g_done_since = FALSE
    /\ g_refire_ok = TRUE
    /\ g_refire_played = TRUE
    /\ g_followups = 0
    /\ g_played_age = -1
    /\ g_early_followup = FALSE
    /\ g_timeouts = 0

(***************************************************************************)
(* process_audio: the greeting callable has returned; the greeting is      *)
(* added to the transcript, the echo cooldown starts and the greeting is   *)
(* sent to TTS as one text.  speaking is not set.                          *)
(***************************************************************************)
Greeting ==
    /\ greet_pc = "pending"
    /\ greet_pc' = "done"
    /\ cooldown_left' = GREETING_ECHO_COOLDOWN_DS
    /\ SendTexts(1, "greeting")
    /\ UNCHANGED <<tts_gen, next_chunk, sendVars, speaking, feed_pc, pipeGhost>>
    /\ UNCHANGED <<vadVars, vadGhost, bufVars, turnGhost, wdGhost>>
    /\ UNCHANGED <<call_elapsed, last_transcript_age, buffer_start_age,
                   last_agent_spoke_age, tick_left, stt_agent_elapsed, tick_agent_elapsed>>
    /\ UNCHANGED <<stt_queue, finals_left, stt_pc, stt_cur, tick_pc>>
    /\ UNCHANGED offCall

(***************************************************************************)
(* The STT adapter emits a final transcript (whisper event queue).  The     *)
(* caller utters at most finals_left more finals and none while an agent   *)
(* invocation is overdue.                                                  *)
(***************************************************************************)
Final(raw) ==
    /\ greet_pc = "done"
    /\ finals_left > 0
    /\ CallerMaySpeak
    /\ finals_left' = finals_left - 1
    /\ stt_queue' = Append(stt_queue, raw)
    /\ UNCHANGED <<ttsVars, sendVars, speaking, feed_pc, pipeGhost, vadVars, vadGhost>>
    /\ UNCHANGED <<clockVars, bufVars, turnGhost, wdGhost>>
    /\ UNCHANGED <<greet_pc, stt_pc, stt_cur, tick_pc>>
    /\ UNCHANGED offCall

(***************************************************************************)
(* process_buffered_turn up to its suspension in agent_handler, run by     *)
(* task p ("stt": _stt_loop, "tick": silence_checker) on the non-empty     *)
(* buffer buf.  The buffer and its times are reset and the joined text is  *)
(* handed to agent_handler, which returns None at once while the call is   *)
(* younger than GREETING_DURATION and otherwise suspends in the agent.     *)
(***************************************************************************)
Commit(p, buf, arrived) ==
    /\ turn_buffer' = <<>>
    /\ last_transcript_age' = -1
    /\ buffer_start_age' = -1
    /\ g_turn' = JoinSpace(buf)
    /\ g_turn_arrived' = arrived
    /\ g_commits' = g_commits + 1
    /\ g_runs' = IF call_elapsed >= GREETING_DURATION_DS THEN g_runs + 1 ELSE g_runs
    /\ g_arrived' = <<>>
    /\ LET busy == call_elapsed >= GREETING_DURATION_DS IN
       /\ stt_pc' = IF p = "stt" THEN (IF busy THEN "agent" ELSE "idle") ELSE stt_pc
       /\ tick_pc' = IF p = "tick" THEN (IF busy THEN "agent" ELSE "sleep") ELSE tick_pc
       /\ stt_agent_elapsed' = IF p = "stt" /\ busy THEN 0 ELSE stt_agent_elapsed
       /\ tick_agent_elapsed' = IF p = "tick" /\ busy THEN 0 ELSE tick_agent_elapsed
    /\ tick_left' = IF p = "tick" THEN TICK_DS ELSE tick_left

\* turn_buffer.append(transcript)
AppendFragment(buf, transcript) ==
    Append(buf, transcript)

(***************************************************************************)
(* _stt_loop from "Combine buffer for turn detection" on: the buffer, now  *)
(* newbuf, is scored by the turn detector (eot, in percent) and committed  *)
(* when the score reaches the effective threshold.                         *)
(***************************************************************************)
EvaluateTurn(newbuf, start_age, arrived, eot) ==
    LET word_count == WordCount(JoinSpace(newbuf))
        is_confident == eot >= EffectiveThreshold(word_count)
    IN  /\ waiting_for_response' = FALSE
        /\ no_input_fallback_triggered' = FALSE
        /\ g_played_age' = -1
        /\ IF is_confident
           THEN Commit("stt", newbuf, arrived)
           ELSE /\ turn_buffer' = newbuf
                /\ last_transcript_age' = 0
                /\ buffer_start_age' = start_age
                /\ stt_pc' = "idle"
                /\ g_arrived' = arrived
                /\ UNCHANGED <<tick_pc, tick_left, stt_agent_elapsed, tick_agent_elapsed,
                               g_turn, g_turn_arrived, g_commits, g_runs>>

\* _stt_loop, "Skip transcripts during greeting echo cooldown", with the test off
GreetingCooldownOff ==
    FALSE

\* self._greeting_cooldown_until > 0 and current_time < self._greeting_cooldown_until
InGreetingCooldown ==
    cooldown_left > 0

(***************************************************************************)
(* _stt_loop takes the next final.  Blank transcripts, silence indicators  *)
(* and transcripts inside the greeting cooldown are skipped.  While the    *)
(* agent is speaking the task enters _handle_interrupt; otherwise the      *)
(* transcript is appended to the buffer and the turn is evaluated.         *)
(***************************************************************************)
SttLoopStep(eot) ==
    /\ stt_pc = "idle"
    /\ stt_queue # <<>>
    /\ stt_queue' = Tail(stt_queue)
    /\ LET transcript == Strip(Head(stt_queue)) IN
       IF transcript = <<>> \/ IsSilenceIndicator(transcript) \/ InGreetingCooldown
       THEN /\ g_echo_dropped' = IF transcript = <<>> \/ IsSilenceIndicator(transcript)
                                   THEN g_echo_dropped
                                   ELSE g_echo_dropped + 1
            /\ g_arrived' = IF /\ transcript # <<>>
                                  /\ transcript \notin SILENCE_PATTERNS
                                  /\ cooldown_left = 0
                               THEN Append(g_arrived, transcript)
                               ELSE g_arrived
            /\ UNCHANGED <<ttsVars, sendVars, speaking, pipeGhost>>
            /\ UNCHANGED <<clockVars, bufVars, g_turn, g_turn_arrived, g_commits, g_runs, wdGhost>>
            /\ UNCHANGED <<stt_pc, stt_cur, tick_pc>>
       ELSE IF speaking
       THEN /\ HandleInterrupt
            /\ stt_pc' = "intr"
            /\ stt_cur' = transcript
            /\ UNCHANGED <<speaking, tick_pc, g_echo_dropped>>
            /\ UNCHANGED <<clockVars, bufVars, turnGhost, wdGhost>>
       ELSE /\ EvaluateTurn(AppendFragment(turn_buffer, transcript),
                            IF turn_buffer = <<>> THEN 0 ELSE buffer_start_age,
                            Append(g_arrived, transcript), eot)
            /\ UNCHANGED <<ttsVars, sendVars, speaking, pipeGhost, stt_cur, g_echo_dropped>>
            /\ UNCHANGED <<cooldown_left, call_elapsed, last_agent_spoke_age>>
            /\ UNCHANGED <<g_wd_fired, g_resp_since, g_done_since, g_refire_ok,
                           g_refire_played, g_followups, g_early_followup, g_timeouts>>
    /\ LET transcript == Strip(Head(stt_queue))
           is_fragment == /\ transcript # <<>>
                          /\ transcript \notin SILENCE_PATTERNS
                          /\ cooldown_left = 0
       IN  /\ g_input_age' = IF is_fragment THEN 0 ELSE g_input_age
           /\ g_texts_at_fragment' = IF is_fragment THEN next_text ELSE g_texts_at_fragment
    /\ UNCHANGED <<feed_pc, vadVars, feedGhost, greet_pc, finals_left>>
    /\ UNCHANGED offCall

\* _stt_loop after the interrupt, with the transcript appended to the buffer
SttIntrEndMerged(eot) ==
    /\ stt_pc = "intr"
    /\ speaking' = FALSE
    /\ stt_cur' = <<>>
    /\ EvaluateTurn(Append(turn_buffer, stt_cur),
                    IF turn_buffer = <<>> THEN 0 ELSE buffer_start_age,
                    Append(g_arrived, stt_cur), eot)
    /\ UNCHANGED <<ttsVars, sendVars, pipeGhost, feed_pc, vadVars, vadGhost>>
    /\ UNCHANGED <<cooldown_left, call_elapsed, last_agent_spoke_age>>
    /\ UNCHANGED <<greet_pc, stt_queue, finals_left>>
    /\ UNCHANGED <<g_wd_fired, g_resp_since, g_done_since, g_refire_ok,
                   g_refire_played, g_followups, g_early_followup, g_timeouts>>
    /\ UNCHANGED offCall

(***************************************************************************)
(* _stt_loop after _handle_interrupt returned: speaking is cleared, the    *)
(* buffer is restarted with the interrupting transcript and the turn is    *)
(* evaluated.                                                              *)
(***************************************************************************)
SttIntrEnd(eot) ==
    /\ stt_pc = "intr"
    /\ speaking' = FALSE
    /\ stt_cur' = <<>>
    /\ EvaluateTurn(<<stt_cur>>, 0, Append(g_arrived, stt_cur), eot)
    /\ UNCHANGED <<ttsVars, sendVars, pipeGhost, feed_pc, vadVars, vadGhost>>
    /\ UNCHANGED <<cooldown_left, call_elapsed, last_agent_spoke_age>>
    /\ UNCHANGED <<greet_pc, stt_queue, finals_left>>
    /\ UNCHANGED <<g_wd_fired, g_resp_since, g_done_since, g_refire_ok,
                   g_refire_played, g_followups, g_early_followup, g_timeouts>>
    /\ UNCHANGED offCall

InAgent(p) ==
    IF p = "stt" THEN stt_pc = "agent" ELSE tick_pc = "agent"

AgentElapsed(p) ==
    IF p = "stt" THEN stt_agent_elapsed ELSE tick_agent_elapsed

\* process_buffered_turn returns to its caller
Release(p) ==
    /\ stt_pc' = IF p = "stt" THEN "idle" ELSE stt_pc
    /\ tick_pc' = IF p = "tick" THEN "sleep" ELSE tick_pc
    /\ stt_agent_elapsed' = IF p = "stt" THEN -1 ELSE stt_agent_elapsed
    /\ tick_agent_elapsed' = IF p = "tick" THEN -1 ELSE tick_agent_elapsed
    /\ tick_left' = IF p = "tick" THEN TICK_DS ELSE tick_left

\* process_buffered_turn, "if response:": the n sentences are queued to TTS
SpeakResponse(n, kind) ==
    /\ speaking' = TRUE
    /\ SendTexts(n, kind)
    /\ last_agent_spoke_age' = -1
    /\ waiting_for_response' = TRUE
    /\ no_input_fallback_triggered' = FALSE
    /\ g_resp_since' = TRUE
    /\ g_played_age' = -1

(***************************************************************************)
(* process_buffered_turn in task p after agent_handler returned a response *)
(* of n sentences (n = 0: None or empty): a non-empty response is spoken,  *)
(* and the task goes back to its loop.                                     *)
(***************************************************************************)
Resume(p, n, kind) ==
    /\ Release(p)
    /\ IF n = 0
       THEN /\ UNCHANGED <<tts_text_queue, next_text, speaking, last_agent_spoke_age>>
            /\ UNCHANGED <<waiting_for_response, no_input_fallback_triggered>>
            /\ UNCHANGED <<g_resp_since, g_played_age>>
       ELSE SpeakResponse(n, kind)
    /\ UNCHANGED <<tts_gen, next_chunk, sendVars, feed_pc, pipeGhost, vadVars, vadGhost>>
    /\ UNCHANGED <<cooldown_left, call_elapsed, last_transcript_age, buffer_start_age>>
    /\ UNCHANGED <<turn_buffer, greet_pc, stt_queue, finals_left, stt_cur, turnGhost>>
    /\ UNCHANGED <<g_wd_fired, g_done_since, g_refire_ok, g_refire_played,
                   g_followups, g_early_followup>>

(***************************************************************************)
(* agent_handler returns before the timeout with a response of n sentences *)
(* (n = 0: empty).  An agent that has not answered after MaxAgentLatency   *)
(* does not answer before the timeout.                                     *)
(***************************************************************************)
AgentReturn(p, n) ==
    /\ InAgent(p)
    /\ AgentElapsed(p) <= MaxAgentLatency
    /\ Resume(p, n, "response")
    /\ UNCHANGED g_timeouts
    /\ UNCHANGED offCall

\* a timeout that returns nothing
TimeoutSilent ==
    [n |-> 0, kind |-> "none"]

\* agent_handler: what is returned on asyncio.TimeoutError
TimeoutResponse ==
    [n |-> APOLOGY_SENTENCES, kind |-> "apology"]

(***************************************************************************)
(* agent_handler: asyncio.wait_for(runs.wait, AGENT_TIMEOUT) expires; the  *)
(* run is abandoned and the apology is returned as the response.           *)
(***************************************************************************)
AgentTimeout(p) ==
    /\ InAgent(p)
    /\ AgentElapsed(p) >= AGENT_TIMEOUT_DS
    /\ Resume(p, TimeoutResponse.n, TimeoutResponse.kind)
    /\ g_timeouts' = g_timeouts + 1
    /\ UNCHANGED offCall

\* a watchdog that forgets it has fired
FallbackLatchOff ==
    FALSE

\* no_input_fallback_triggered after the watchdog fired
FallbackLatch ==
    TRUE

\* buffer_age in silence_checker
BufferAge ==
    IF buffer_start_age # -1 THEN buffer_start_age ELSE 0

(***************************************************************************)
(* silence_checker wakes from asyncio.sleep(0.3).  A buffered turn is      *)
(* committed after SILENCE_FALLBACK_DELAY of silence or MAX_BUFFER_AGE;    *)
(* otherwise the no-input watchdog is armed or fires.  The commit is       *)
(* awaited, so the task does not sleep again before the agent returned.    *)
(***************************************************************************)
TickerWake ==
    /\ tick_pc = "sleep"
    /\ tick_left = 0
    /\ IF turn_buffer # <<>> /\ last_transcript_age # -1
       THEN IF \/ last_transcript_age >= SILENCE_FALLBACK_DELAY_DS
               \/ BufferAge >= MAX_BUFFER_AGE_DS
            THEN /\ Commit("tick", turn_buffer, g_arrived)
                 /\ UNCHANGED <<tts_text_queue, next_text, speaking, last_agent_spoke_age>>
                 /\ UNCHANGED <<waiting_for_response, no_input_fallback_triggered>>
                 /\ UNCHANGED wdGhost
            ELSE /\ tick_left' = TICK_DS
                 /\ UNCHANGED <<tts_text_queue, next_text, speaking, bufVars>>
                 /\ UNCHANGED <<last_transcript_age, buffer_start_age, last_agent_spoke_age,
                                stt_agent_elapsed, tick_agent_elapsed>>
                 /\ UNCHANGED <<stt_pc, tick_pc, turnGhost, wdGhost>>
       ELSE IF /\ waiting_for_response
               /\ ~speaking
               /\ ~no_input_fallback_triggered
               /\ turn_buffer = <<>>
       THEN IF last_agent_spoke_age = -1
            THEN /\ last_agent_spoke_age' = 0
                 /\ tick_left' = TICK_DS
                 /\ UNCHANGED <<tts_text_queue, next_text, speaking, bufVars>>
                 /\ UNCHANGED <<last_transcript_age, buffer_start_age,
                                stt_agent_elapsed, tick_agent_elapsed>>
                 /\ UNCHANGED <<stt_pc, tick_pc, turnGhost, wdGhost>>
            ELSE IF last_agent_spoke_age >= NO_INPUT_TIMEOUT_DS
            THEN /\ no_input_fallback_triggered' = FallbackLatch
                 /\ speaking' = TRUE
                 /\ SendTexts(1, "followup")
                 /\ last_agent_spoke_age' = -1
                 /\ tick_left' = TICK_DS
                 /\ g_wd_fired' = TRUE
                 /\ g_refire_ok' = (g_refire_ok /\ (g_wd_fired => g_resp_since))
                 /\ g_refire_played' = (g_refire_played /\ (g_wd_fired => g_done_since))
                 /\ g_resp_since' = FALSE
                 /\ g_done_since' = FALSE
                 /\ g_followups' = g_followups + 1
                 /\ g_early_followup' = (g_early_followup \/
                        (g_played_age # -1 /\ g_played_age < NO_INPUT_TIMEOUT_DS))
                 /\ UNCHANGED <<turn_buffer, waiting_for_response>>
                 /\ UNCHANGED <<last_transcript_age, buffer_start_age,
                                stt_agent_elapsed, tick_agent_elapsed>>
                 /\ UNCHANGED <<stt_pc, tick_pc, turnGhost, g_played_age, g_timeouts>>
            ELSE /\ tick_left' = TICK_DS
                 /\ UNCHANGED <<tts_text_queue, next_text, speaking, bufVars>>
                 /\ UNCHANGED <<last_transcript_age, buffer_start_age, last_agent_spoke_age,
                                stt_agent_elapsed, tick_agent_elapsed>>
                 /\ UNCHANGED <<stt_pc, tick_pc, turnGhost, wdGhost>>
       ELSE /\ tick_left' = TICK_DS
            /\ UNCHANGED <<tts_text_queue, next_text, speaking, bufVars>>
            /\ UNCHANGED <<last_transcript_age, buffer_start_age, last_agent_spoke_age,
                           stt_agent_elapsed, tick_agent_elapsed>>
            /\ UNCHANGED <<stt_pc, tick_pc, turnGhost, wdGhost>>
    /\ UNCHANGED <<tts_gen, next_chunk, sendVars, feed_pc, pipeGhost, vadVars, vadGhost>>
    /\ UNCHANGED <<cooldown_left, call_elapsed>>
    /\ UNCHANGED <<greet_pc, stt_queue, finals_left, stt_cur>>
    /\ UNCHANGED offCall

\* utterances that are an agent turn
AgentTurnKinds ==
    {"response", "apology", "trouble"}

(***************************************************************************)
(* The TTS worker and the sender work off everything that is queued        *)
(* (_tts_loop, process_and_send, _send_audio until both wait again), each  *)
(* text giving one chunk.  Synthesis and playback are short: they end      *)
(* before any timer of the turn controller moves.                          *)
(***************************************************************************)
PlayOut ==
    /\ tts_text_queue # <<>>
    /\ tts_gen = NoText
    /\ audio_output_queue = <<>>
    /\ send_cur = NoChunk
    /\ LET n == Len(tts_text_queue)
           last == MakeChunks(tts_text_queue[n], next_chunk + n - 1, 1)[1]
       IN  /\ tts_text_queue' = <<>>
           /\ next_chunk' = next_chunk + n
           /\ g_last_frame' = last
           /\ g_sent_max' = next_chunk + n - 1
           /\ IF last.kind \in AgentTurnKinds
              THEN /\ g_played_age' = 0
                   /\ g_followups' = 0
                   /\ g_done_since' = TRUE
              ELSE UNCHANGED <<g_played_age, g_followups, g_done_since>>
    /\ UNCHANGED <<tts_gen, next_text, sendVars, speaking, feed_pc,
                   g_intr_texts, g_intr_chunks, g_intr_sent, g_cleared>>
    /\ UNCHANGED <<vadVars, vadGhost, clockVars, bufVars, ctlVars, turnGhost>>
    /\ UNCHANGED <<g_wd_fired, g_resp_since, g_refire_ok, g_refire_played,
                   g_early_followup, g_timeouts>>
    /\ UNCHANGED offCall

\* no task has a step that is due now
TimeMayPass ==
    /\ tts_text_queue = <<>>
    /\ greet_pc = "pending" => call_elapsed < GREETING_WAIT_DS
    /\ tick_pc = "sleep" => tick_left > 0
    /\ stt_pc = "idle" => stt_queue = <<>>
    /\ stt_pc # "intr"
    /\ feed_pc # "intr"
    /\ stt_agent_elapsed < AGENT_TIMEOUT_DS
    /\ tick_agent_elapsed < AGENT_TIMEOUT_DS

(***************************************************************************)
(* 100 ms pass: every running timer and every age moves by one unit.       *)
(***************************************************************************)
Advance ==
    /\ TimeMayPass
    /\ cooldown_left' = Max2(cooldown_left - 1, 0)
    /\ call_elapsed' = Min2(call_elapsed + 1, GREETING_DURATION_DS)
    /\ last_transcript_age' = Bump(last_transcript_age, SilenceCap)
    /\ buffer_start_age' = Bump(buffer_start_age, BufferCap)
    /\ last_agent_spoke_age' = Bump(last_agent_spoke_age, NoInputCap)
    /\ tick_left' = IF tick_pc = "sleep" THEN tick_left - 1 ELSE tick_left
    /\ stt_agent_elapsed' = Bump(stt_agent_elapsed, AGENT_TIMEOUT_DS + 1)
    /\ tick_agent_elapsed' = Bump(tick_agent_elapsed, AGENT_TIMEOUT_DS + 1)
    /\ g_played_age' = Bump(g_played_age, NoInputCap)
    /\ g_input_age' = Bump(g_input_age, NoInputCap)
    /\ UNCHANGED <<ttsVars, sendVars, speaking, feed_pc, pipeGhost, vadVars>>
    /\ UNCHANGED <<feedGhost, g_echo_dropped, g_texts_at_fragment>>
    /\ UNCHANGED <<bufVars, ctlVars, turnGhost>>
    /\ UNCHANGED <<g_wd_fired, g_resp_since, g_done_since, g_refire_ok, g_refire_played,
                   g_followups, g_early_followup, g_timeouts>>
    /\ UNCHANGED offCall

(***************************************************************************)
(* The server process with several sessions.  Module-level state:          *)
(* AGENT_MODE, turn_detector._detector (one TurnDetector, handed to every  *)
(* pipeline by get_turn_detector) and tools._current_context.  A message   *)
(* of the EOT history is kept as its role and the session it came from.    *)
(* The agent runs on the LangGraph platform: what a run did reaches the    *)
(* server as the messages runs.wait returns.                               *)
(***************************************************************************)
Sessions ==
    1..NumSessions

AgentModes ==
    {"sales", "healthcare"}

NoContext ==
    0

\* session_data.get("call_context") / .get("healthcare_context") giving None
AbsentContext ==
    [exists |-> FALSE, ended |-> FALSE, outcome |-> "none", notes |-> <<>>]

\* CallContext / HealthcareCallContext as on_session_start builds it
FreshContext ==
    [exists |-> TRUE, ended |-> FALSE, outcome |-> "none", notes |-> <<>>]

NoToolCall ==
    [called |-> FALSE, outcome |-> "none", notes |-> ""]

EndOutcomes ==
    {"not_interested", "meeting_booked"}

EndNotes ==
    {"", "note"}

Responses ==
    {"", "text", "goodbye"}

InitProcessIn(mode) ==
    /\ agent_mode = mode
    /\ sess_pc = [s \in Sessions |-> "new"]
    /\ sess_lead = [s \in Sessions |-> FALSE]
    /\ sess_turns = [s \in Sessions |-> 0]
    /\ detector_history = <<>>
    /\ current_context = NoContext
    /\ call_context = [s \in Sessions |-> AbsentContext]
    /\ healthcare_context = [s \in Sessions |-> AbsentContext]
    /\ run_end_call = [s \in Sessions |-> NoToolCall]
    /\ should_hangup = [s \in Sessions |-> FALSE]
    /\ g_foreign_history = FALSE
    /\ g_foreign_context = FALSE
    /\ g_own_end = [s \in Sessions |-> FALSE]
    /\ g_last_run = [s \in Sessions |-> NoToolCall]

\* AGENT_MODE = os.environ.get("AGENT_MODE", "sales")
InitProcess ==
    InitProcessIn("sales")

\* TurnDetector.add_agent_message / add_user_message: append, keep the last 8
HistoryAppend(history, role, s) ==
    LET h == Append(history, [role |-> role, sess |-> s])
    IN  IF Len(h) > MAX_HISTORY * 2
        THEN SubSeq(h, Len(h) - MAX_HISTORY * 2 + 1, Len(h))
        ELSE h

\* tools.get_call_context() followed by the test "context and context.ended"
GlobalContextEnded ==
    current_context # NoContext /\ call_context[current_context].ended

(***************************************************************************)
(* on_session_start: the context of the call is built and kept in          *)
(* session_data; the sales context is also installed with                  *)
(* set_call_context.  When the call has a lead, line 222 reads the name    *)
(* agent, which server.py never defines: the NameError leaves call_session *)
(* None and ends receive_from_twilio, the task that awaited the callback.  *)
(***************************************************************************)
on_session_start(s, lead) ==
    /\ sess_pc[s] = "new"
    /\ sess_pc' = [sess_pc EXCEPT ![s] = "start"]
    /\ sess_lead' = [sess_lead EXCEPT ![s] = lead]
    /\ IF agent_mode = "healthcare"
       THEN /\ healthcare_context' = [healthcare_context EXCEPT ![s] = FreshContext]
            /\ UNCHANGED <<call_context, current_context>>
       ELSE /\ call_context' = [call_context EXCEPT ![s] = FreshContext]
            /\ current_context' = s
            /\ UNCHANGED healthcare_context
    /\ UNCHANGED <<agent_mode, sess_turns, detector_history, run_end_call, should_hangup,
                   g_foreign_history, g_foreign_context, g_own_end, g_last_run>>
    /\ UNCHANGED offSess

(***************************************************************************)
(* process_audio: the greeting is added to the turn detector's history.    *)
(***************************************************************************)
SessGreeting(s) ==
    /\ sess_pc[s] = "start"
    /\ sess_pc' = [sess_pc EXCEPT ![s] = "listen"]
    /\ detector_history' = HistoryAppend(detector_history, "assistant", s)
    /\ UNCHANGED <<agent_mode, sess_lead, sess_turns, current_context, call_context,
                   healthcare_context, run_end_call, should_hangup, g_foreign_history,
                   g_foreign_context, g_own_end, g_last_run>>
    /\ UNCHANGED offSess

(***************************************************************************)
(* _stt_loop on a final that completes a turn: predict_eot builds its      *)
(* prompt from the history, process_buffered_turn adds the turn to the     *)
(* history and awaits agent_handler.  No audio, and so no final, reaches   *)
(* the pipeline of a session whose receiver has ended.                     *)
(***************************************************************************)
SessCommitTurn(s) ==
    /\ sess_pc[s] = "listen"
    /\ ~sess_lead[s]
    /\ sess_turns[s] < MaxSessTurns
    /\ g_foreign_history' =
         (g_foreign_history
            \/ \E i \in 1..Len(detector_history) : detector_history[i].sess # s)
    /\ detector_history' = HistoryAppend(detector_history, "user", s)
    /\ sess_turns' = [sess_turns EXCEPT ![s] = @ + 1]
    /\ sess_pc' = [sess_pc EXCEPT ![s] = "agent"]
    /\ UNCHANGED <<agent_mode, sess_lead, current_context, call_context,
                   healthcare_context, run_end_call, should_hangup, g_foreign_context,
                   g_own_end, g_last_run>>
    /\ UNCHANGED offSess

(***************************************************************************)
(* The end_call tool, called by the agent during the run of session s.     *)
(* The tool runs on the platform, where _get_context_from_config builds a  *)
(* context from the phone_number of the run's config and end_call marks    *)
(* that object; the server gets the tool call in the run's messages.       *)
(***************************************************************************)
end_call(s, outcome, notes) ==
    /\ sess_pc[s] = "agent"
    /\ ~run_end_call[s].called
    /\ run_end_call' = [run_end_call EXCEPT ![s] =
           [called |-> TRUE, outcome |-> outcome, notes |-> notes]]
    /\ g_own_end' = [g_own_end EXCEPT ![s] = TRUE]
    /\ UNCHANGED <<agent_mode, sess_pc, sess_lead, sess_turns, detector_history,
                   current_context, call_context, healthcare_context, should_hangup,
                   g_foreign_history, g_foreign_context, g_last_run>>
    /\ UNCHANGED offSess

\* agent_handler, lines 420-436: an end_call tool call is copied to healthcare_ctx
CapturedEndCall(hc, tc) ==
    IF tc.called /\ hc.exists
    THEN [hc EXCEPT !.outcome = tc.outcome,
                    !.ended = TRUE,
                    !.notes = IF tc.notes # "" THEN Append(@, tc.notes) ELSE @]
    ELSE hc

(***************************************************************************)
(* The run of session s completes: agent_handler extracts the response,    *)
(* captures the tool calls, decides on the hangup and returns;             *)
(* process_buffered_turn adds a non-empty response to the history.         *)
(***************************************************************************)
SessAgentReturn(s, response) ==
    /\ sess_pc[s] = "agent"
    /\ sess_pc' = [sess_pc EXCEPT ![s] = "listen"]
    /\ detector_history' = IF response # ""
                           THEN HistoryAppend(detector_history, "assistant", s)
                           ELSE detector_history
    /\ LET hc == CapturedEndCall(healthcare_context[s], run_end_call[s])
           end_call_triggered == hc.exists /\ hc.ended
           goodbye == response = "goodbye"
       IN
        /\ healthcare_context' = [healthcare_context EXCEPT ![s] = hc]
        /\ should_hangup' = [should_hangup EXCEPT ![s] =
               @ \/ (response # "" /\ (end_call_triggered \/ GlobalContextEnded \/ goodbye))]
        /\ g_foreign_context' =
               (g_foreign_context
                  \/ (/\ response # ""
                      /\ ~end_call_triggered
                      /\ current_context \notin {NoContext, s}))
        /\ g_own_end' = [g_own_end EXCEPT ![s] = @ \/ goodbye]
    /\ g_last_run' = [g_last_run EXCEPT ![s] = run_end_call[s]]
    /\ run_end_call' = [run_end_call EXCEPT ![s] = NoToolCall]
    /\ UNCHANGED <<agent_mode, sess_lead, sess_turns, current_context, call_context,
                   g_foreign_history>>
    /\ UNCHANGED offSess

(***************************************************************************)
(* on_session_end, called for the stop event.  call_session is None, so    *)
(* nothing clears the global context; the EOT history is not cleared.      *)
(***************************************************************************)
on_session_end(s) ==
    /\ sess_pc[s] \in {"start", "listen", "agent"}
    /\ ~sess_lead[s]
    /\ sess_pc' = [sess_pc EXCEPT ![s] = "ended"]
    /\ UNCHANGED <<agent_mode, sess_lead, sess_turns, detector_history, current_context,
                   call_context, healthcare_context, run_end_call, should_hangup,
                   g_foreign_history, g_foreign_context, g_own_end, g_last_run>>
    /\ UNCHANGED offSess

(***************************************************************************)
(* One provider connection, from websocket.accept() to the end of its      *)
(* tasks: the receiver (receive_from_twilio), the STT feed (feed_stt), the *)
(* turn controller (_stt_loop) with its ticker (silence_checker), the TTS  *)
(* worker (_tts_loop) and the sender (process_and_send, which drives the   *)
(* generator process_audio).  Audio and text are kept as tokens.           *)
(***************************************************************************)
ProviderFrames ==
    {"connected", "start", "media", "media_bad_padding", "not_json", "mark", "stop"}

\* websocket.send_text once the provider has gone: the ASGI server either
\* raises or drops the message
SendOutcomes ==
    {"raises", "dropped"}

InitConn ==
    /\ ws_state = "open"
    /\ frames_left = MaxFrames
    /\ recv_pc = "run"
    /\ session_set = FALSE
    /\ registered = FALSE
    /\ on_call_end_calls = 0
    /\ audio_queue = <<>>
    /\ conn_feed = "run"
    /\ input_done = FALSE
    /\ stt_audio = FALSE
    /\ stt_closed = FALSE
    /\ conn_stt = "wait"
    /\ conn_buffered = FALSE
    /\ conn_tick = "sleep"
    /\ conn_texts = <<>>
    /\ tts_closed = FALSE
    /\ conn_tts = "wait"
    /\ conn_out = <<>>
    /\ conn_main = "loop"

(***************************************************************************)
(* receive_from_twilio, one message.  json.loads and base64.b64decode      *)
(* raise on a message that is not JSON and on a payload with wrong         *)
(* padding; the only handler of the loop is except WebSocketDisconnect, so *)
(* the exception ends the receiver (and, through gather, the endpoint).    *)
(***************************************************************************)
ReceiveFrame(event) ==
    /\ recv_pc = "run"
    /\ ws_state = "open"
    /\ frames_left > 0
    /\ frames_left' = frames_left - 1
    /\ CASE event = "start" ->
              /\ session_set' = TRUE
              /\ registered' = TRUE
              /\ UNCHANGED <<recv_pc, on_call_end_calls, audio_queue>>
         [] event = "media" ->
              /\ audio_queue' = Append(audio_queue, "pcm")
              /\ UNCHANGED <<recv_pc, session_set, registered, on_call_end_calls>>
         [] event \in {"media_bad_padding", "not_json"} ->
              /\ recv_pc' = "crashed"
              /\ UNCHANGED <<session_set, registered, on_call_end_calls, audio_queue>>
         [] event = "stop" ->
              /\ audio_queue' = Append(audio_queue, "end")
              /\ on_call_end_calls' = on_call_end_calls + (IF session_set THEN 1 ELSE 0)
              /\ registered' = (registered /\ ~session_set)
              /\ recv_pc' = "done"
              /\ UNCHANGED session_set
         [] OTHER ->
              UNCHANGED <<recv_pc, session_set, registered, on_call_end_calls,
                          audio_queue>>
    /\ UNCHANGED <<ws_state, conn_feed, input_done, stt_audio, stt_closed, conn_stt,
                   conn_buffered, conn_tick, conn_texts, tts_closed, conn_tts, conn_out,
                   conn_main>>
    /\ UNCHANGED offConn

\* the provider closes the WebSocket
Disconnect ==
    /\ ws_state = "open"
    /\ ws_state' = "closed"
    /\ UNCHANGED <<frames_left, recv_pc, session_set, registered, on_call_end_calls,
                   audio_queue, conn_feed, input_done, stt_audio, stt_closed, conn_stt,
                   conn_buffered, conn_tick, conn_texts, tts_closed, conn_tts, conn_out,
                   conn_main>>
    /\ UNCHANGED offConn

(***************************************************************************)
(* receive_from_twilio: receive_text raises WebSocketDisconnect; the       *)
(* handler puts the end marker on audio_queue and the receiver returns.    *)
(***************************************************************************)
ReceiveDisconnect ==
    /\ recv_pc = "run"
    /\ ws_state = "closed"
    /\ audio_queue' = Append(audio_queue, "end")
    /\ recv_pc' = "done"
    /\ UNCHANGED <<ws_state, frames_left, session_set, registered, on_call_end_calls,
                   conn_feed, input_done, stt_audio, stt_closed, conn_stt, conn_buffered,
                   conn_tick, conn_texts, tts_closed, conn_tts, conn_out, conn_main>>
    /\ UNCHANGED offConn

(***************************************************************************)
(* feed_stt, one item of audio_input_stream: audio goes to the STT         *)
(* adapter; the end marker ends the stream, the adapter is closed and      *)
(* _input_done is set.                                                     *)
(***************************************************************************)
FeedAudio ==
    /\ conn_feed = "run"
    /\ audio_queue # <<>>
    /\ audio_queue' = Tail(audio_queue)
    /\ IF Head(audio_queue) = "end"
       THEN /\ conn_feed' = "done"
            /\ stt_closed' = TRUE
            /\ input_done' = TRUE
            /\ UNCHANGED stt_audio
       ELSE /\ stt_audio' = TRUE
            /\ UNCHANGED <<conn_feed, stt_closed, input_done>>
    /\ UNCHANGED <<ws_state, frames_left, recv_pc, session_set, registered,
                   on_call_end_calls, conn_stt, conn_buffered, conn_tick, conn_texts,
                   tts_closed, conn_tts, conn_out, conn_main>>
    /\ UNCHANGED offConn

(***************************************************************************)
(* _stt_loop on a transcript of the STT adapter: the fragment is buffered, *)
(* or the turn is committed and agent_handler awaited.                     *)
(***************************************************************************)
ConnSttEvent(commit) ==
    /\ conn_stt = "wait"
    /\ stt_audio
    /\ stt_audio' = FALSE
    /\ IF commit
       THEN /\ conn_stt' = "agent"
            /\ conn_buffered' = FALSE
       ELSE /\ conn_buffered' = TRUE
            /\ UNCHANGED conn_stt
    /\ UNCHANGED <<ws_state, frames_left, recv_pc, session_set, registered,
                   on_call_end_calls, audio_queue, conn_feed, input_done, stt_closed,
                   conn_tick, conn_texts, tts_closed, conn_tts, conn_out, conn_main>>
    /\ UNCHANGED offConn

\* the agent's answer (agent_handler returns within AGENT_TIMEOUT or with the
\* apology); a response is sent to TTS
ConnAgentReturn(p, response) ==
    /\ IF p = "stt" THEN conn_stt = "agent" ELSE conn_tick = "agent"
    /\ conn_stt' = IF p = "stt" THEN "wait" ELSE conn_stt
    /\ conn_tick' = IF p = "tick" THEN "sleep" ELSE conn_tick
    /\ conn_texts' = IF response THEN Append(conn_texts, "text") ELSE conn_texts
    /\ UNCHANGED <<ws_state, frames_left, recv_pc, session_set, registered,
                   on_call_end_calls, audio_queue, conn_feed, input_done, stt_audio,
                   stt_closed, conn_buffered, tts_closed, conn_tts, conn_out, conn_main>>
    /\ UNCHANGED offConn

\* silence_checker commits the buffered turn and awaits agent_handler
ConnTickCommit ==
    /\ conn_tick = "sleep"
    /\ conn_buffered
    /\ conn_buffered' = FALSE
    /\ conn_tick' = "agent"
    /\ UNCHANGED <<ws_state, frames_left, recv_pc, session_set, registered,
                   on_call_end_calls, audio_queue, conn_feed, input_done, stt_audio,
                   stt_closed, conn_stt, conn_texts, tts_closed, conn_tts, conn_out,
                   conn_main>>
    /\ UNCHANGED offConn

(***************************************************************************)
(* The STT adapter is closed and has nothing left: receive_events ends,    *)
(* _stt_loop cancels and awaits silence_checker and returns.               *)
(***************************************************************************)
ConnSttEnd ==
    /\ conn_stt = "wait"
    /\ stt_closed
    /\ ~stt_audio
    /\ conn_stt' = "done"
    /\ conn_tick' = "done"
    /\ UNCHANGED <<ws_state, frames_left, recv_pc, session_set, registered,
                   on_call_end_calls, audio_queue, conn_feed, input_done, stt_audio,
                   stt_closed, conn_buffered, conn_texts, tts_closed, conn_tts, conn_out,
                   conn_main>>
    /\ UNCHANGED offConn

(***************************************************************************)
(* ComfyUITTS.receive_events under _tts_loop: the worker takes an item of  *)
(* the text queue; the None marker ends it once _closed is set, and        *)
(* _tts_loop then puts None on the output queue.                           *)
(***************************************************************************)
ConnTtsGet ==
    /\ conn_tts = "wait"
    /\ conn_texts # <<>>
    /\ conn_texts' = Tail(conn_texts)
    /\ IF Head(conn_texts) = "text"
       THEN /\ conn_tts' = "gen"
            /\ UNCHANGED conn_out
       ELSE IF tts_closed
            THEN /\ conn_tts' = "done"
                 /\ conn_out' = Append(conn_out, "end")
            ELSE UNCHANGED <<conn_tts, conn_out>>
    /\ UNCHANGED <<ws_state, frames_left, recv_pc, session_set, registered,
                   on_call_end_calls, audio_queue, conn_feed, input_done, stt_audio,
                   stt_closed, conn_stt, conn_buffered, conn_tick, tts_closed, conn_main>>
    /\ UNCHANGED offConn

\* _generate returns audio (ok) or None
ConnTtsGenerated(ok) ==
    /\ conn_tts = "gen"
    /\ LET out == IF ok THEN Append(conn_out, "chunk") ELSE conn_out
       IN  IF tts_closed /\ conn_texts = <<>>
           THEN /\ conn_tts' = "done"
                /\ conn_out' = Append(out, "end")
           ELSE /\ conn_tts' = "wait"
                /\ conn_out' = out
    /\ UNCHANGED <<ws_state, frames_left, recv_pc, session_set, registered,
                   on_call_end_calls, audio_queue, conn_feed, input_done, stt_audio,
                   stt_closed, conn_stt, conn_buffered, conn_tick, conn_texts, tts_closed,
                   conn_main>>
    /\ UNCHANGED offConn

(***************************************************************************)
(* process_audio's output loop inside process_and_send: a chunk is yielded *)
(* and, with a session, sent by _send_audio; None ends the loop.           *)
(***************************************************************************)
ConnMainGet ==
    /\ conn_main = "loop"
    /\ conn_out # <<>>
    /\ conn_out' = Tail(conn_out)
    /\ conn_main' = IF Head(conn_out) = "end" THEN "cleanup"
                    ELSE IF session_set THEN "send" ELSE "loop"
    /\ UNCHANGED <<ws_state, frames_left, recv_pc, session_set, registered,
                   on_call_end_calls, audio_queue, conn_feed, input_done, stt_audio,
                   stt_closed, conn_stt, conn_buffered, conn_tick, conn_texts, tts_closed,
                   conn_tts>>
    /\ UNCHANGED offConn

(***************************************************************************)
(* _send_audio.  On a closed socket send_text raises or the message is     *)
(* dropped; the exception is caught by process_and_send, which returns     *)
(* and leaves the generator process_audio suspended at its yield: the code *)
(* after its loop (await the tasks, tts.close()) is never run.             *)
(***************************************************************************)
ConnSend(outcome) ==
    /\ conn_main = "send"
    /\ conn_main' = IF ws_state = "closed" /\ outcome = "raises"
                    THEN "abandoned" ELSE "loop"
    /\ UNCHANGED <<ws_state, frames_left, recv_pc, session_set, registered,
                   on_call_end_calls, audio_queue, conn_feed, input_done, stt_audio,
                   stt_closed, conn_stt, conn_buffered, conn_tick, conn_texts, tts_closed,
                   conn_tts, conn_out>>
    /\ UNCHANGED offConn

\* wait_for(get(), 0.1) times out with the input done and the queue empty
ConnMainTimeout ==
    /\ conn_main = "loop"
    /\ conn_out = <<>>
    /\ input_done
    /\ conn_main' = "grace"
    /\ UNCHANGED <<ws_state, frames_left, recv_pc, session_set, registered,
                   on_call_end_calls, audio_queue, conn_feed, input_done, stt_audio,
                   stt_closed, conn_stt, conn_buffered, conn_tick, conn_texts, tts_closed,
                   conn_tts, conn_out>>
    /\ UNCHANGED offConn

\* after sleep(0.5): the loop ends if the queue is still empty
ConnMainGrace ==
    /\ conn_main = "grace"
    /\ conn_main' = IF conn_out = <<>> THEN "cleanup" ELSE "loop"
    /\ UNCHANGED <<ws_state, frames_left, recv_pc, session_set, registered,
                   on_call_end_calls, audio_queue, conn_feed, input_done, stt_audio,
                   stt_closed, conn_stt, conn_buffered, conn_tick, conn_texts, tts_closed,
                   conn_tts, conn_out>>
    /\ UNCHANGED offConn

\* await feed_task; await stt_task; await self.tts.close()
ConnCleanup ==
    /\ conn_main = "cleanup"
    /\ conn_feed = "done"
    /\ conn_stt = "done"
    /\ tts_closed' = TRUE
    /\ conn_texts' = Append(conn_texts, "end")
    /\ conn_main' = "closing"
    /\ UNCHANGED <<ws_state, frames_left, recv_pc, session_set, registered,
                   on_call_end_calls, audio_queue, conn_feed, input_done, stt_audio,
                   stt_closed, conn_stt, conn_buffered, conn_tick, conn_tts, conn_out>>
    /\ UNCHANGED offConn

\* await tts_task; self._running = False
ConnFinish ==
    /\ conn_main = "closing"
    /\ conn_tts = "done"
    /\ conn_main' = "finished"
    /\ UNCHANGED <<ws_state, frames_left, recv_pc, session_set, registered,
                   on_call_end_calls, audio_queue, conn_feed, input_done, stt_audio,
                   stt_closed, conn_stt, conn_buffered, conn_tick, conn_texts, tts_closed,
                   conn_tts, conn_out>>
    /\ UNCHANGED offConn

AllTasksDone ==
    /\ recv_pc \in {"done", "crashed"}
    /\ conn_feed = "done"
    /\ conn_stt = "done"
    /\ conn_tick = "done"
    /\ conn_tts = "done"
    /\ conn_main \in {"finished", "abandoned"}

(***************************************************************************)
(* The thread binder: ThreadMappingService (thread_mapping.py).  A key     *)
(* stands for a pair (external_id, external_type).  Every call opens its   *)
(* own sqlite connection; a step of a call is one SQL statement with its   *)
(* commit, so the statements of concurrent calls interleave.               *)
(***************************************************************************)
Keys == 1..NumKeys

Callers == 1..NumCallers

IdleCall == [op |-> "none", at |-> "idle", key |-> 0, prior |-> {}, bound |-> 0]

NoResult == [op |-> "none", key |-> 0, status |-> "none", thread_id |-> 0,
             prior |-> {}, bound |-> 0]

InitBinder ==
    /\ thread_mappings = <<>>
    /\ uuid_next = 1
    /\ bind_pc = [c \in Callers |-> IdleCall]
    /\ bind_result = [c \in Callers |-> NoResult]
    /\ bind_calls = 0
    /\ g_ever_active = [k \in Keys |-> {}]
    /\ g_bound = [k \in Keys |-> 0]
    /\ phone_thread = [s \in Sessions |-> 0]
    /\ phone_of = [s \in Sessions |-> 0]
    /\ phone_calls = 0
    /\ g_invoked = [k \in Keys |-> {}]

\* UNIQUE(external_id, external_type, is_active) of table thread_mappings
UniqueViolated(rows) ==
    \E i, j \in 1..Len(rows) :
        /\ i # j
        /\ rows[i].external = rows[j].external
        /\ rows[i].is_active = rows[j].is_active

\* SELECT thread_id ... WHERE external_id = ? AND external_type = ? AND is_active = 1
ActiveRows(rows, k) ==
    {i \in 1..Len(rows) : rows[i].external = k /\ rows[i].is_active = 1}

ActiveThread(rows, k) ==
    rows[CHOOSE i \in ActiveRows(rows, k) : TRUE].thread_id

\* UPDATE thread_mappings SET is_active = 0 WHERE ... AND is_active = 1
Deactivated(rows, k) ==
    [i \in 1..Len(rows) |->
        IF rows[i].external = k /\ rows[i].is_active = 1
        THEN [rows[i] EXCEPT !.is_active = 0]
        ELSE rows[i]]

\* how a call ends: it returns a thread id, or sqlite3.IntegrityError leaves it
BinderReturn(c, status, id) ==
    /\ bind_result' = [bind_result EXCEPT ![c] =
           [op |-> bind_pc[c].op, key |-> bind_pc[c].key, status |-> status,
            thread_id |-> id, prior |-> bind_pc[c].prior, bound |-> bind_pc[c].bound]]
    /\ bind_pc' = [bind_pc EXCEPT ![c] = IdleCall]
    /\ g_bound' = IF status = "ok"
                  THEN [g_bound EXCEPT ![bind_pc[c].key] = id]
                  ELSE g_bound

\* a caller enters get_or_create_thread (force_new false) or
\* create_new_thread_for_external (force_new true) for key k
BinderBegin(c, k, force_new) ==
    /\ bind_pc[c].at = "idle"
    /\ bind_calls < MaxBinderCalls
    /\ bind_calls' = bind_calls + 1
    /\ bind_pc' = [bind_pc EXCEPT ![c] =
           [op |-> IF force_new THEN "force_new" ELSE "get_or_create",
            at |-> IF force_new THEN "deactivate" ELSE "select",
            key |-> k, prior |-> g_ever_active[k], bound |-> g_bound[k]]]
    /\ UNCHANGED <<thread_mappings, uuid_next, bind_result, g_ever_active, g_bound,
                   phone_thread, phone_of, phone_calls, g_invoked>>
    /\ UNCHANGED offBinder

\* deactivate_thread: the UPDATE either commits or breaks the UNIQUE constraint
deactivate_thread(c) ==
    /\ bind_pc[c].at = "deactivate"
    /\ LET rows == Deactivated(thread_mappings, bind_pc[c].key) IN
        IF UniqueViolated(rows)
        THEN /\ BinderReturn(c, "IntegrityError", 0)
             /\ UNCHANGED thread_mappings
        ELSE /\ thread_mappings' = rows
             /\ bind_pc' = [bind_pc EXCEPT ![c].at = "select"]
             /\ UNCHANGED <<bind_result, g_bound>>
    /\ UNCHANGED <<uuid_next, bind_calls, g_ever_active, phone_thread, phone_of,
                   phone_calls, g_invoked>>
    /\ UNCHANGED offBinder

\* get_or_create_thread up to the SELECT: an active mapping is returned
BinderSelect(c) ==
    /\ bind_pc[c].at = "select"
    /\ IF ActiveRows(thread_mappings, bind_pc[c].key) # {}
       THEN BinderReturn(c, "ok", ActiveThread(thread_mappings, bind_pc[c].key))
       ELSE /\ bind_pc' = [bind_pc EXCEPT ![c].at = "insert"]
            /\ UNCHANGED <<bind_result, g_bound>>
    /\ UNCHANGED <<thread_mappings, uuid_next, bind_calls, g_ever_active,
                   phone_thread, phone_of, phone_calls, g_invoked>>
    /\ UNCHANGED offBinder

\* get_or_create_thread from uuid4 on: the INSERT and its commit
BinderInsert(c) ==
    /\ bind_pc[c].at = "insert"
    /\ uuid_next' = uuid_next + 1
    /\ LET k == bind_pc[c].key
           rows == Append(thread_mappings,
                          [external |-> k, thread_id |-> uuid_next, is_active |-> 1])
       IN
        IF UniqueViolated(rows)
        THEN /\ BinderReturn(c, "IntegrityError", 0)
             /\ UNCHANGED <<thread_mappings, g_ever_active>>
        ELSE /\ thread_mappings' = rows
             /\ g_ever_active' = [g_ever_active EXCEPT ![k] = @ \cup {uuid_next}]
             /\ BinderReturn(c, "ok", uuid_next)
    /\ UNCHANGED <<bind_calls, phone_thread, phone_of, phone_calls, g_invoked>>
    /\ UNCHANGED offBinder

(***************************************************************************)
(* The thread id of the agent runs of a call.  The campaign manager binds  *)
(* a thread to the lead's phone number when it starts a call               *)
(* (CallSession.start -> SalesAgent.start_call); the call itself is served *)
(* by the media-stream endpoint, whose agent_handler finds no call_session *)
(* (server.py line 222 reads the name agent, which the module never        *)
(* defines) and resolves the thread id itself.                             *)
(***************************************************************************)
\* get_or_create_thread run from start to end by the only caller of a process
BoundThread(rows, k, fresh) ==
    IF ActiveRows(rows, k) # {}
    THEN [rows |-> rows, thread_id |-> ActiveThread(rows, k), minted |-> FALSE]
    ELSE [rows |-> Append(rows, [external |-> k, thread_id |-> fresh, is_active |-> 1]),
          thread_id |-> fresh, minted |-> TRUE]

\* a call to phone number p starts and its media stream opens as session s
PhoneCallStart(s, p, campaign) ==
    /\ phone_of[s] = 0
    /\ phone_calls < MaxPhoneCalls
    /\ phone_calls' = phone_calls + 1
    /\ phone_of' = [phone_of EXCEPT ![s] = p]
    /\ phone_thread' = [phone_thread EXCEPT ![s] = 0]
    /\ LET b == BoundThread(thread_mappings, p, uuid_next) IN
        IF campaign
        THEN /\ thread_mappings' = b.rows
             /\ uuid_next' = IF b.minted THEN uuid_next + 1 ELSE uuid_next
             /\ g_ever_active' = [g_ever_active EXCEPT ![p] = @ \cup {b.thread_id}]
             /\ g_bound' = [g_bound EXCEPT ![p] = b.thread_id]
        ELSE UNCHANGED <<thread_mappings, uuid_next, g_ever_active, g_bound>>
    /\ UNCHANGED <<bind_pc, bind_result, bind_calls, g_invoked>>
    /\ UNCHANGED offBinder

\* agent_handler: the thread id kept in session_data, else threads.create
AgentHandlerThread(s) ==
    /\ phone_of[s] # 0
    /\ LET minted == phone_thread[s] = 0
           thread_id == IF minted THEN uuid_next ELSE phone_thread[s]
       IN
        /\ uuid_next' = IF minted THEN uuid_next + 1 ELSE uuid_next
        /\ phone_thread' = [phone_thread EXCEPT ![s] = thread_id]
        /\ g_invoked' = [g_invoked EXCEPT ![phone_of[s]] = @ \cup {thread_id}]
    /\ UNCHANGED <<thread_mappings, bind_pc, bind_result, bind_calls, g_ever_active,
                   g_bound, phone_of, phone_calls>>
    /\ UNCHANGED offBinder

\* the connection of session s ends and its session_data is dropped
PhoneCallEnd(s) ==
    /\ phone_of[s] # 0
    /\ phone_of' = [phone_of EXCEPT ![s] = 0]
    /\ phone_thread' = [phone_thread EXCEPT ![s] = 0]
    /\ UNCHANGED <<thread_mappings, uuid_next, bind_pc, bind_result, bind_calls,
                   g_ever_active, g_bound, phone_calls, g_invoked>>
    /\ UNCHANGED offBinder

(***************************************************************************)
(* CallRecoveryHandler (telephony/call_recovery.py).  A CallState is kept  *)
(* as the lead of the call and its outcome_so_far ("none" for None); the   *)
(* duration before the disconnect is an input of handle_disconnect, since  *)
(* it is read from the clock there.                                        *)
(***************************************************************************)
RecCalls == 1..NumRecCalls

Leads == 1..NumLeads

DisconnectReason ==
    {"normal_end", "websocket_disconnect", "twilio_error", "timeout", "network_error",
     "unknown"}

PartialOutcomes ==
    {"none", "interested", "hostile", "do_not_call", "wrong_number", "meeting_booked"}

Durations == (MIN_DURATION_FOR_RETRY - 1)..MaxDuration

NotRegistered == [lead |-> 0, outcome_so_far |-> "none"]

NoDisconnect ==
    [registered |-> FALSE, reason |-> "none", duration |-> 0, retries |-> 0,
     outcome |-> "none", scheduled |-> FALSE, retry_in |-> -1]

InitRecovery ==
    /\ active_calls = [c \in RecCalls |-> NotRegistered]
    /\ retry_counts = [l \in Leads |-> 0]
    /\ rec_last = NoDisconnect

\* _should_retry without the test of the retry count
should_retry_no_limit(state, reason, duration, current_retries) ==
    IF reason = "normal_end" THEN FALSE
    ELSE IF duration < MIN_DURATION_FOR_RETRY THEN FALSE
    ELSE IF state.outcome_so_far \in {"hostile", "do_not_call", "wrong_number"} THEN FALSE
    ELSE IF state.outcome_so_far = "meeting_booked" THEN FALSE
    ELSE IF reason \in {"websocket_disconnect", "network_error", "timeout"} THEN TRUE
    ELSE FALSE

should_retry_any_reason(state, reason, duration, current_retries) ==
    IF reason = "normal_end" THEN FALSE
    ELSE IF duration < MIN_DURATION_FOR_RETRY THEN FALSE
    ELSE IF current_retries >= MAX_RETRIES THEN FALSE
    ELSE IF state.outcome_so_far \in {"hostile", "do_not_call", "wrong_number"} THEN FALSE
    ELSE IF state.outcome_so_far = "meeting_booked" THEN FALSE
    ELSE TRUE

should_retry(state, reason, duration, current_retries) ==
    IF reason = "normal_end" THEN FALSE
    ELSE IF duration < MIN_DURATION_FOR_RETRY THEN FALSE
    ELSE IF current_retries >= MAX_RETRIES THEN FALSE
    ELSE IF state.outcome_so_far \in {"hostile", "do_not_call", "wrong_number"} THEN FALSE
    ELSE IF state.outcome_so_far = "meeting_booked" THEN FALSE
    ELSE IF reason \in {"websocket_disconnect", "network_error", "timeout"} THEN TRUE
    ELSE FALSE

register_call(c, lead) ==
    /\ active_calls' = [active_calls EXCEPT ![c] = [lead |-> lead, outcome_so_far |-> "none"]]
    /\ UNCHANGED <<retry_counts, rec_last>>
    /\ UNCHANGED offRec

update_outcome(c, outcome) ==
    /\ active_calls' = IF active_calls[c] # NotRegistered
                       THEN [active_calls EXCEPT ![c].outcome_so_far = outcome]
                       ELSE active_calls
    /\ UNCHANGED <<retry_counts, rec_last>>
    /\ UNCHANGED offRec

\* handle_disconnect with _save_partial_call, _should_retry and _schedule_retry
handle_disconnect(c, reason, duration) ==
    /\ IF active_calls[c] = NotRegistered
       THEN /\ rec_last' = [NoDisconnect EXCEPT !.reason = reason, !.duration = duration]
            /\ UNCHANGED <<active_calls, retry_counts>>
       ELSE LET state == active_calls[c]
                current_retries == retry_counts[state.lead]
                retry == should_retry(state, reason, duration, current_retries)
            IN  /\ retry_counts' = IF retry
                                   THEN [retry_counts EXCEPT ![state.lead] = @ + 1]
                                   ELSE retry_counts
                /\ active_calls' = [active_calls EXCEPT ![c] = NotRegistered]
                /\ rec_last' = [registered |-> TRUE, reason |-> reason,
                                duration |-> duration, retries |-> current_retries,
                                outcome |-> state.outcome_so_far, scheduled |-> retry,
                                retry_in |-> IF retry THEN RETRY_DELAY ELSE -1]
    /\ UNCHANGED offRec

\* handle_normal_end: the outcome it stores goes away with the CallState
handle_normal_end(c) ==
    /\ IF active_calls[c] # NotRegistered
       THEN /\ retry_counts' = [retry_counts EXCEPT ![active_calls[c].lead] = 0]
            /\ active_calls' = [active_calls EXCEPT ![c] = NotRegistered]
       ELSE UNCHANGED <<active_calls, retry_counts>>
    /\ UNCHANGED rec_last
    /\ UNCHANGED offRec

(***************************************************************************)
(* The hangup timer of a session (server.py, agent_handler and             *)
(* hangup_after_delay), in units of 100 ms.  Every response for which the  *)
(* hangup test holds creates a task that sleeps and then asks the          *)
(* call-control API to end the call.                                       *)
(***************************************************************************)
\* len(response.split()) of the responses the agent may return
HangWordCounts ==
    {5, 20}

\* max(3.0, word_count / 2.5) + 1.0
HangupDelay(word_count) ==
    Max2(HANGUP_MIN_TTS_DS, HANGUP_DS_PER_WORD * word_count) + HANGUP_GRACE_DS

HangAgeCap ==
    HangupDelay(20) + 1

InitHangup ==
    /\ hang_flag = FALSE
    /\ hang_timers = <<>>
    /\ hang_requests = 0
    /\ hang_responses = 0
    /\ g_hang_age = -1
    /\ g_hang_delay = 0
    /\ g_hang_early = FALSE

\* the sequence s without its i-th element
RemoveAt(s, i) ==
    SubSeq(s, 1, i - 1) \o SubSeq(s, i + 1, Len(s))

(***************************************************************************)
(* agent_handler returns a non-empty response of word_count words; ends is *)
(* the value of "end_call_triggered or should_end_call(response)".         *)
(***************************************************************************)
HangupResponse(word_count, ends) ==
    /\ hang_responses < MaxHangResponses
    /\ hang_responses' = hang_responses + 1
    /\ IF ends
       THEN /\ hang_flag' = TRUE
            /\ hang_timers' = Append(hang_timers, HangupDelay(word_count))
            /\ g_hang_age' = IF hang_flag THEN g_hang_age ELSE 0
            /\ g_hang_delay' = IF hang_flag THEN g_hang_delay ELSE HangupDelay(word_count)
       ELSE UNCHANGED <<hang_flag, hang_timers, g_hang_age, g_hang_delay>>
    /\ UNCHANGED <<hang_requests, g_hang_early>>
    /\ UNCHANGED offHang

\* 100 ms pass while no sleep of a hangup task is over
HangupAdvance ==
    /\ hang_timers # <<>>
    /\ \A i \in 1..Len(hang_timers) : hang_timers[i] > 0
    /\ hang_timers' = [i \in 1..Len(hang_timers) |-> hang_timers[i] - 1]
    /\ g_hang_age' = Bump(g_hang_age, HangAgeCap)
    /\ UNCHANGED <<hang_flag, hang_requests, hang_responses, g_hang_delay, g_hang_early>>
    /\ UNCHANGED offHang

(***************************************************************************)
(* hangup_after_delay after its sleep: with should_hangup set (the session *)
(* has a call_sid) TwilioClient.end_call is called.                        *)
(***************************************************************************)
hangup_after_delay(i) ==
    /\ i \in 1..Len(hang_timers)
    /\ hang_timers[i] = 0
    /\ hang_timers' = RemoveAt(hang_timers, i)
    /\ hang_requests' = IF hang_flag THEN hang_requests + 1 ELSE hang_requests
    /\ g_hang_early' = (g_hang_early \/ (hang_flag /\ g_hang_age < g_hang_delay))
    /\ UNCHANGED <<hang_flag, hang_responses, g_hang_age, g_hang_delay>>
    /\ UNCHANGED offHang

(***************************************************************************)
(* The inbound audio of one connection, frame by frame: the media branch   *)
(* of receive_from_twilio, audio_queue, audio_input_stream and the loop of *)
(* feed_stt.                                                               *)
(***************************************************************************)
\* media.payload of a media message: base64 of 20 ms of mu-law audio, the
\* empty string (or no payload at all), or text that is not valid base64
MediaPayloads ==
    {"audio", "empty", "bad_padding"}

InitFrames ==
    /\ media_in = 0
    /\ media_queue = <<>>
    /\ media_recv = "run"
    /\ media_feed = "run"
    /\ vad_seen = <<>>
    /\ stt_seen = <<>>
    /\ discard_log = {}
    /\ g_enqueued = <<>>

(***************************************************************************)
(* receive_from_twilio, event "media".  A payload that is empty fails the  *)
(* test "if payload:" and the branch ends without a message;  b64decode    *)
(* raises on a bad payload, the exception leaves the receiver and is       *)
(* reported by the server with its traceback.                              *)
(***************************************************************************)
ReceiveMedia(payload) ==
    /\ media_recv = "run"
    /\ media_in < MaxMediaFrames
    /\ media_in' = media_in + 1
    /\ CASE payload = "audio" ->
              /\ media_queue' = Append(media_queue, media_in + 1)
              /\ g_enqueued' = Append(g_enqueued, media_in + 1)
              /\ UNCHANGED <<media_recv, discard_log>>
         [] payload = "empty" ->
              UNCHANGED <<media_queue, g_enqueued, media_recv, discard_log>>
         [] payload = "bad_padding" ->
              /\ media_recv' = "crashed"
              /\ discard_log' = discard_log \cup {media_in + 1}
              /\ UNCHANGED <<media_queue, g_enqueued>>
    /\ UNCHANGED <<media_feed, vad_seen, stt_seen>>
    /\ UNCHANGED offFrame

\* receive_from_twilio, event "stop" or WebSocketDisconnect: the None marker
ReceiveEnd ==
    /\ media_recv = "run"
    /\ media_recv' = "done"
    /\ media_queue' = Append(media_queue, 0)
    /\ UNCHANGED <<media_in, media_feed, vad_seen, stt_seen, discard_log, g_enqueued>>
    /\ UNCHANGED offFrame

(***************************************************************************)
(* feed_stt, one item of audio_input_stream: the chunk's RMS is appended   *)
(* to audio_levels and the chunk goes to stt.add_audio; the None marker    *)
(* ends the stream.                                                        *)
(***************************************************************************)
FeedStt ==
    /\ media_feed = "run"
    /\ media_queue # <<>>
    /\ media_queue' = Tail(media_queue)
    /\ IF Head(media_queue) = 0
       THEN /\ media_feed' = "done"
            /\ UNCHANGED <<vad_seen, stt_seen>>
       ELSE /\ vad_seen' = Append(vad_seen, Head(media_queue))
            /\ stt_seen' = Append(stt_seen, Head(media_queue))
            /\ UNCHANGED media_feed
    /\ UNCHANGED <<media_in, media_recv, discard_log, g_enqueued>>
    /\ UNCHANGED offFrame

(***************************************************************************)
(* One TTS engine behind the pipeline: its text queue, the synthesis in    *)
(* flight, the pipeline's output queue, and _handle_interrupt.             *)
(***************************************************************************)
\* the values of PipelineConfig.tts_engine that create_tts tells apart (any
\* other value gives the chatterbox engine)
TtsEngines ==
    {"comfyui", "mira", "kokoro", "chatterbox"}

\* hasattr(self.tts, 'clear_queue'): of the four streaming wrappers only
\* StreamingComfyUITTS defines the method
HasClearQueue(engine) ==
    engine = "comfyui"

InitEngineOf(engines) ==
    /\ tts_engine \in engines
    /\ eng_text_queue = <<>>
    /\ eng_closed = FALSE
    /\ eng_done = FALSE
    /\ eng_generating = 0
    /\ eng_out = <<>>
    /\ eng_speaking = FALSE
    /\ eng_texts = 0
    /\ eng_intr = "idle"
    /\ eng_steps = <<>>
    /\ g_bargeins = 0
    /\ g_clear_row = 0
    /\ g_clear_removed = 0

InitEngine ==
    InitEngineOf({"comfyui"})

\* clear_queue with a single get_nowait
clear_queue_once(queue) ==
    IF queue = <<>> THEN queue ELSE Tail(queue)

\* ComfyUITTS.clear_queue: get_nowait until the queue is empty
RECURSIVE clear_queue(_)
clear_queue(queue) ==
    IF queue = <<>> THEN queue ELSE clear_queue(Tail(queue))

\* the pipeline speaks a response: tts.send_text
EngSendText ==
    /\ eng_texts < MaxEngTexts
    /\ eng_texts' = eng_texts + 1
    /\ eng_text_queue' = Append(eng_text_queue, eng_texts + 1)
    /\ eng_speaking' = TRUE
    /\ g_clear_row' = 0
    /\ UNCHANGED <<tts_engine, eng_closed, eng_done, eng_generating, eng_out, eng_intr,
                   eng_steps, g_bargeins, g_clear_removed>>
    /\ UNCHANGED offEng

\* tts.close: _closed is set and None is put on the text queue
EngClose ==
    /\ ~eng_closed
    /\ eng_closed' = TRUE
    /\ eng_text_queue' = Append(eng_text_queue, 0)
    /\ g_clear_row' = 0
    /\ UNCHANGED <<tts_engine, eng_done, eng_generating, eng_out, eng_speaking, eng_texts,
                   eng_intr, eng_steps, g_bargeins, g_clear_removed>>
    /\ UNCHANGED offEng

\* receive_events takes the next item of the text queue: None ends the stream
\* once the engine is closed, a text goes to _generate
EngReceive ==
    /\ ~eng_done
    /\ eng_generating = 0
    /\ eng_text_queue # <<>>
    /\ eng_text_queue' = Tail(eng_text_queue)
    /\ eng_generating' = Head(eng_text_queue)
    /\ eng_done' = (Head(eng_text_queue) = 0 /\ eng_closed)
    /\ g_clear_row' = 0
    /\ UNCHANGED <<tts_engine, eng_closed, eng_out, eng_speaking, eng_texts, eng_intr,
                   eng_steps, g_bargeins, g_clear_removed>>
    /\ UNCHANGED offEng

\* _generate returns, _tts_loop puts the audio on the output queue, and the
\* stream ends when the engine is closed and no text is left
EngGenerated ==
    /\ eng_generating # 0
    /\ eng_generating' = 0
    /\ eng_out' = Append(eng_out, eng_generating)
    /\ eng_done' = (eng_closed /\ eng_text_queue = <<>>)
    /\ g_clear_row' = 0
    /\ UNCHANGED <<tts_engine, eng_text_queue, eng_closed, eng_speaking, eng_texts,
                   eng_intr, eng_steps, g_bargeins, g_clear_removed>>
    /\ UNCHANGED offEng

\* a call of tts.clear_queue()
ClearQueue ==
    /\ HasClearQueue(tts_engine)
    /\ eng_text_queue' = clear_queue(eng_text_queue)
    /\ g_clear_row' = Min2(g_clear_row + 1, 2)
    /\ g_clear_removed' = IF g_clear_row = 0 THEN Len(eng_text_queue) ELSE g_clear_removed
    /\ UNCHANGED <<tts_engine, eng_closed, eng_done, eng_generating, eng_out, eng_speaking,
                   eng_texts, eng_intr, eng_steps, g_bargeins>>
    /\ UNCHANGED offEng

(***************************************************************************)
(* A barge-in (the VAD in feed_stt, or a fragment in _stt_loop) while the  *)
(* agent speaks: _handle_interrupt up to its await.  The text queue is     *)
(* cleared when the engine has clear_queue, the output queue is drained.   *)
(***************************************************************************)
EngBargeIn ==
    /\ eng_speaking
    /\ eng_intr = "idle"
    /\ eng_intr' = "on_interrupt"
    /\ g_bargeins' = g_bargeins + 1
    /\ IF HasClearQueue(tts_engine)
       THEN /\ eng_text_queue' = clear_queue(eng_text_queue)
            /\ eng_steps' = <<"clear_text_queue", "drain_output_queue">>
       ELSE /\ UNCHANGED eng_text_queue
            /\ eng_steps' = <<"drain_output_queue">>
    /\ eng_out' = <<>>
    /\ g_clear_row' = 0
    /\ UNCHANGED <<tts_engine, eng_closed, eng_done, eng_generating, eng_speaking, eng_texts,
                   g_clear_removed>>
    /\ UNCHANGED offEng

(***************************************************************************)
(* on_interrupt (server.handle_interrupt) has sent the provider's clear    *)
(* event, _handle_interrupt returns and its caller sets _speaking = False. *)
(***************************************************************************)
EngBargeInEnd ==
    /\ eng_intr = "on_interrupt"
    /\ eng_intr' = "idle"
    /\ eng_steps' = eng_steps \o <<"send_clear", "speaking_false">>
    /\ eng_speaking' = FALSE
    /\ g_clear_row' = 0
    /\ UNCHANGED <<tts_engine, eng_text_queue, eng_closed, eng_done, eng_generating, eng_out,
                   eng_texts, g_bargeins, g_clear_removed>>
    /\ UNCHANGED offEng

(***************************************************************************)
(* sentence_splitter, on texts made of tokens separated by single spaces.  *)
(* A token is a phrase, a run of len characters without any split point    *)
(* inside that starts with a capital letter and ends with tail (nothing, a *)
(* comma or a full stop, counted in len), or the conjunction "and".  The   *)
(* texts hold no abbreviation, decimal number or ellipsis.                 *)
(***************************************************************************)
PhraseLengths ==
    {10, 96, 100}

Conjunction ==
    [len |-> 3, tail |-> "and"]

Tokens ==
    [len : PhraseLengths, tail : {"", ",", "."}] \cup {Conjunction}

\* the texts of at most n tokens
RECURSIVE TextsUpTo(_)
TextsUpTo(n) ==
    IF n = 0
    THEN {<<>>}
    ELSE LET shorter == TextsUpTo(n - 1)
         IN  shorter \cup {Append(t, tok) : t \in shorter, tok \in Tokens}

\* len() of the string of a token sequence
RECURSIVE TextLen(_)
TextLen(toks) ==
    IF toks = <<>> THEN 0
    ELSE IF Len(toks) = 1 THEN Head(toks).len
    ELSE Head(toks).len + 1 + TextLen(Tail(toks))

\* " ".join of a list of chunks
RECURSIVE JoinChunks(_)
JoinChunks(chunks) ==
    IF chunks = <<>> THEN <<>> ELSE Head(chunks) \o JoinChunks(Tail(chunks))

(***************************************************************************)
(* re.split(sentence_pattern, text): a boundary is a full stop followed by *)
(* whitespace and a capital letter, or a full stop at the end of the text. *)
(* cur is the sentence collected so far.                                   *)
(***************************************************************************)
RECURSIVE RawSentences(_, _)
RawSentences(toks, cur) ==
    IF toks = <<>>
    THEN IF cur = <<>> THEN <<>> ELSE <<cur>>
    ELSE LET c == Append(cur, Head(toks))
             rest == Tail(toks)
         IN  IF Head(toks).tail = "." /\ (rest = <<>> \/ Head(rest) # Conjunction)
             THEN <<c>> \o RawSentences(rest, <<>>)
             ELSE RawSentences(rest, c)

\* split_sentences, "Merge short sentences with the next one"
RECURSIVE MergeShort(_, _, _)
MergeShort(sentences, buffer, merged) ==
    IF sentences = <<>>
    THEN IF buffer = <<>> THEN merged
         ELSE IF merged # <<>>
              THEN [merged EXCEPT ![Len(merged)] = merged[Len(merged)] \o buffer]
              ELSE <<buffer>>
    ELSE LET b == buffer \o Head(sentences)
         IN  IF TextLen(b) >= MIN_CHUNK_LENGTH
             THEN MergeShort(Tail(sentences), <<>>, Append(merged, b))
             ELSE MergeShort(Tail(sentences), b, merged)

split_sentences(text) ==
    MergeShort(RawSentences(text, <<>>), <<>>, <<>>)

(***************************************************************************)
(* re.split(sub_pattern, sent) without its empty parts: the whitespace     *)
(* after a comma separates, and so does a conjunction with whitespace on   *)
(* both sides, which is dropped with it.  i is the position in sent.       *)
(***************************************************************************)
RECURSIVE Parts(_, _, _)
Parts(sent, i, cur) ==
    IF i > Len(sent)
    THEN IF cur = <<>> THEN <<>> ELSE <<cur>>
    ELSE IF sent[i] = Conjunction /\ i > 1 /\ i < Len(sent)
         THEN (IF cur = <<>> THEN <<>> ELSE <<cur>>) \o Parts(sent, i + 1, <<>>)
         ELSE IF sent[i].tail = "," /\ i < Len(sent)
              THEN <<Append(cur, sent[i])>> \o Parts(sent, i + 1, <<>>)
              ELSE Parts(sent, i + 1, Append(cur, sent[i]))

\* split_for_tts, "Merge very short parts"
RECURSIVE Pack(_, _)
Pack(parts, current) ==
    IF parts = <<>>
    THEN IF current = <<>> THEN <<>> ELSE <<current>>
    ELSE IF current = <<>>
         THEN Pack(Tail(parts), Head(parts))
         ELSE IF TextLen(current) + TextLen(Head(parts)) + 1 <= MAX_CHUNK_LENGTH
              THEN Pack(Tail(parts), current \o Head(parts))
              ELSE <<current>> \o Pack(Tail(parts), Head(parts))

RECURSIVE SplitLong(_)
SplitLong(sentences) ==
    IF sentences = <<>> THEN <<>>
    ELSE (IF TextLen(Head(sentences)) <= MAX_CHUNK_LENGTH
          THEN <<Head(sentences)>>
          ELSE Pack(Parts(Head(sentences), 1, <<>>), <<>>))
         \o SplitLong(Tail(sentences))

split_for_tts(text) ==
    SplitLong(split_sentences(text))

InitSplit ==
    /\ sp_text = <<>>
    /\ sp_pc = "text"
    /\ sp_chunks = <<>>
    /\ sp_again = <<>>

\* the response goes through split_for_tts
SplitResponse ==
    /\ sp_pc = "text"
    /\ sp_pc' = "split"
    /\ sp_chunks' = split_for_tts(sp_text)
    /\ UNCHANGED <<sp_text, sp_again>>
    /\ UNCHANGED offSplit

\* the chunks are joined with single spaces and split again
Resplit ==
    /\ sp_pc = "split"
    /\ sp_pc' = "resplit"
    /\ sp_again' = split_for_tts(JoinChunks(sp_chunks))
    /\ UNCHANGED <<sp_text, sp_chunks>>
    /\ UNCHANGED offSplit

(***************************************************************************)
(* The STT adapter: StreamingWhisperSTT over WhisperSTT (whisper_stt.py).  *)
(* The feeder passes chunks of ChunkMs milliseconds of audio to add_audio  *)
(* as they arrive, so a chunk of ms milliseconds arrives ms milliseconds   *)
(* after the one before; a chunk is kept as its number and its duration.   *)
(* receive_events is the generator consumed by _stt_loop.                  *)
(***************************************************************************)
RmsLevels == {100, SILENCE_THRESHOLD}

ChunkMs == {100, 400}

InitStt ==
    /\ w_chunks_left = MaxSttChunks
    /\ w_next_id = 1
    /\ w_buffer = <<>>
    /\ w_requested = FALSE
    /\ w_closed = FALSE
    /\ w_pc = "wait"
    /\ w_run = <<>>
    /\ w_events = 0
    /\ w_has_speech = FALSE
    /\ w_silence_age = -1
    /\ g_speech_since_request = FALSE
    /\ g_quiet_ms = -1
    /\ g_add_requested = FALSE
    /\ g_accepted = {}
    /\ g_recognized = {}
    /\ g_short = {}

\* add_audio with "<=" in place of "<" in the silence test
IsSilenceInclusive(rms) ==
    rms <= SILENCE_THRESHOLD

\* add_audio: rms < self.silence_threshold
IsSilence(rms) ==
    rms < SILENCE_THRESHOLD

\* len(audio_array) / self.sample_rate of the joined chunks, in ms
RECURSIVE AudioMs(_)
AudioMs(audio) ==
    IF audio = <<>> THEN 0 ELSE Head(audio).ms + AudioMs(Tail(audio))

ChunkIds(audio) ==
    {audio[i].id : i \in 1..Len(audio)}

(***************************************************************************)
(* StreamingWhisperSTT.add_audio on a chunk of ms milliseconds with the    *)
(* given RMS: WhisperSTT.add_audio appends it unless the adapter is        *)
(* closed; a chunk below the threshold starts the silence timer once       *)
(* speech was seen and, when the timer has run for silence_duration,       *)
(* requests the transcription; any other chunk marks speech and clears the *)
(* timer.                                                                  *)
(***************************************************************************)
WAddAudio(rms, ms) ==
    /\ w_chunks_left > 0
    /\ w_chunks_left' = w_chunks_left - 1
    /\ w_next_id' = w_next_id + 1
    /\ IF ~w_closed
       THEN /\ w_buffer' = Append(w_buffer, [id |-> w_next_id, ms |-> ms])
            /\ g_accepted' = g_accepted \cup {w_next_id}
       ELSE UNCHANGED <<w_buffer, g_accepted>>
    /\ LET age == IF w_silence_age = -1 THEN -1
                  ELSE Min2(w_silence_age + ms, SILENCE_DURATION_MS)
           request == IsSilence(rms) /\ w_has_speech /\ age # -1
                      /\ age >= SILENCE_DURATION_MS
       IN  /\ IF IsSilence(rms)
              THEN IF w_has_speech
                   THEN IF age = -1
                        THEN /\ w_silence_age' = 0
                             /\ UNCHANGED <<w_has_speech, w_requested>>
                        ELSE IF age >= SILENCE_DURATION_MS
                             THEN /\ w_requested' = TRUE
                                  /\ w_has_speech' = FALSE
                                  /\ w_silence_age' = -1
                             ELSE /\ w_silence_age' = age
                                  /\ UNCHANGED <<w_has_speech, w_requested>>
                   ELSE /\ w_silence_age' = age
                        /\ UNCHANGED <<w_has_speech, w_requested>>
              ELSE /\ w_has_speech' = TRUE
                   /\ w_silence_age' = -1
                   /\ UNCHANGED w_requested
           /\ g_add_requested' = request
           /\ g_speech_since_request' =
                  IF rms >= SILENCE_THRESHOLD THEN TRUE
                  ELSE IF request THEN FALSE
                  ELSE g_speech_since_request
    /\ g_quiet_ms' = IF rms >= SILENCE_THRESHOLD THEN -1
                     ELSE IF g_quiet_ms = -1 THEN 0
                     ELSE Min2(g_quiet_ms + ms, SILENCE_DURATION_MS)
    /\ UNCHANGED <<w_closed, w_pc, w_run, w_events, g_recognized, g_short>>
    /\ UNCHANGED offStt

\* StreamingWhisperSTT.close -> WhisperSTT.close, called once by the feeder
WClose ==
    /\ ~w_closed
    /\ w_closed' = TRUE
    /\ w_requested' = TRUE
    /\ UNCHANGED <<w_chunks_left, w_next_id, w_buffer, w_pc, w_run, w_events,
                   w_has_speech, w_silence_age, g_speech_since_request, g_quiet_ms,
                   g_add_requested, g_accepted, g_recognized, g_short>>
    /\ UNCHANGED offStt

(***************************************************************************)
(* receive_events from the return of _transcribe_requested.wait() to its   *)
(* next suspension: the event is cleared; an empty buffer ends the stream  *)
(* when closed; otherwise the buffer is joined and cleared and _transcribe *)
(* is called, which returns "" at once for less than 0.3 s of audio and    *)
(* else suspends in the recognizer.                                        *)
(***************************************************************************)
WReceive ==
    /\ w_pc = "wait"
    /\ w_requested
    /\ w_requested' = FALSE
    /\ IF w_buffer = <<>>
       THEN /\ w_pc' = IF w_closed THEN "done" ELSE "wait"
            /\ UNCHANGED <<w_buffer, w_run, g_recognized, g_short>>
       ELSE /\ w_buffer' = <<>>
            /\ IF AudioMs(w_buffer) < MIN_TRANSCRIBE_MS
               THEN /\ w_pc' = IF w_closed THEN "done" ELSE "wait"
                    /\ g_short' = g_short \cup ChunkIds(w_buffer)
                    /\ UNCHANGED <<w_run, g_recognized>>
               ELSE /\ w_pc' = "transcribing"
                    /\ w_run' = w_buffer
                    /\ g_recognized' = g_recognized \cup ChunkIds(w_buffer)
                    /\ UNCHANGED g_short
    /\ UNCHANGED <<w_chunks_left, w_next_id, w_closed, w_events, w_has_speech,
                   w_silence_age, g_speech_since_request, g_quiet_ms, g_add_requested,
                   g_accepted>>
    /\ UNCHANGED offStt

(***************************************************************************)
(* _transcribe returns the recognizer's output: a transcript is yielded    *)
(* as an STTOutputEvent, an empty one is not; then "if self._closed:       *)
(* break" ends the stream.                                                 *)
(***************************************************************************)
WTranscribed(has_text) ==
    /\ w_pc = "transcribing"
    /\ w_run' = <<>>
    /\ IF has_text
       THEN /\ w_pc' = "yield"
            /\ w_events' = w_events + 1
       ELSE /\ w_pc' = IF w_closed THEN "done" ELSE "wait"
            /\ UNCHANGED w_events
    /\ UNCHANGED <<w_chunks_left, w_next_id, w_buffer, w_requested, w_closed,
                   w_has_speech, w_silence_age, g_speech_since_request, g_quiet_ms,
                   g_add_requested, g_accepted, g_recognized, g_short>>
    /\ UNCHANGED offStt

\* the consumer asks for the next event: receive_events goes on after the yield
WNext ==
    /\ w_pc = "yield"
    /\ w_pc' = IF w_closed THEN "done" ELSE "wait"
    /\ UNCHANGED <<w_chunks_left, w_next_id, w_buffer, w_requested, w_closed, w_run,
                   w_events, w_has_speech, w_silence_age, g_speech_since_request,
                   g_quiet_ms, g_add_requested, g_accepted, g_recognized, g_short>>
    /\ UNCHANGED offStt
(***************************************************************************)
(* The outbound path and feed_stt of a fresh session.                      *)
(***************************************************************************)
InitOutbound ==
    /\ tts_text_queue = <<>>
    /\ tts_gen = NoText
    /\ audio_output_queue = <<>>
    /\ send_cur = NoChunk
    /\ send_left = 0
    /\ speaking = FALSE
    /\ feed_pc = "run"
    /\ next_text = 1
    /\ next_chunk = 1
    /\ g_intr_texts = 0
    /\ g_intr_chunks = 0
    /\ g_intr_sent = 0
    /\ g_sent_max = 0
    /\ g_last_frame = NoChunk
    /\ g_cleared = FALSE

InitFeedIdle ==
    /\ vad_state = VAD_SILENCE
    /\ voice_start_time = 0
    /\ vad_triggered = FALSE
    /\ audio_levels = <<>>
    /\ in_frames = <<>>
    /\ vad_now = GREETING_ECHO_COOLDOWN_MS
    /\ cooldown_until_ms = 0
    /\ g_vad_fired = 0
    /\ g_voice_frames = 0
    /\ g_frames_fed = 0
    /\ g_levels_seen = <<>>
    /\ g_threshold_x2 = 0
    /\ g_echo_dropped = 0
    /\ g_input_age = -1
    /\ g_texts_at_fragment = 0
    /\ g_fired_at = 0
    /\ g_silence_since_fire = TRUE
    /\ g_refired_early = FALSE

(***************************************************************************)
(* The turn controller of a session past its greeting and past             *)
(* GREETING_DURATION, waiting for the caller.                              *)
(***************************************************************************)
InitTurnIdle ==
    /\ greet_pc = "done"
    /\ cooldown_left = 0
    /\ call_elapsed = GREETING_DURATION_DS
    /\ stt_queue = <<>>
    /\ stt_pc = "idle"
    /\ stt_cur = <<>>
    /\ turn_buffer = <<>>
    /\ last_transcript_age = -1
    /\ buffer_start_age = -1
    /\ last_agent_spoke_age = -1
    /\ waiting_for_response = FALSE
    /\ no_input_fallback_triggered = FALSE
    /\ tick_pc = "sleep"
    /\ tick_left = TICK_DS
    /\ stt_agent_elapsed = -1
    /\ tick_agent_elapsed = -1
    /\ g_arrived = <<>>
    /\ g_turn = <<>>
    /\ g_turn_arrived = <<>>
    /\ g_commits = 0
    /\ g_runs = 0
    /\ g_wd_fired = FALSE
    /\ g_resp_since = FALSE
    /\ g_done_since = FALSE
    /\ g_refire_ok = TRUE
    /\ g_refire_played = TRUE
    /\ g_followups = 0
    /\ g_played_age = -1
    /\ g_early_followup = FALSE
    /\ g_timeouts = 0

(***************************************************************************)
(* Outbound path: responses of the agent, TTS worker, sender, barge-in.    *)
(***************************************************************************)
InitPipe ==
    /\ InitOutbound
    /\ InitFeedIdle
    /\ InitTurnIdle
    /\ finals_left = 0
    /\ InitProcess
    /\ InitConn
    /\ InitBinder
    /\ InitRecovery
    /\ InitHangup
    /\ InitFrames
    /\ InitEngine
    /\ InitSplit
    /\ InitStt

NextPipe ==
    \/ \E n \in 1..MaxSentences : Respond(n)
    \/ TTSTake
    \/ \E n \in 0..MaxChunksPerText : TTSYield(n)
    \/ SenderTake
    \/ SendFrame
    \/ BargeIn
    \/ BargeInEnd

SpecPipe ==
    InitPipe /\ [][NextPipe]_vars

(***************************************************************************)
(* VAD: the agent is speaking and the caller produces k frames at level hi *)
(* followed by m frames at level lo.                                       *)
(***************************************************************************)
FramePattern(k, hi, m, lo) ==
    [i \in 1..(k + m) |-> IF i <= k THEN hi ELSE lo]

InitVAD ==
    /\ tts_text_queue = MakeTexts(1, 1, "response")
    /\ tts_gen = NoText
    /\ audio_output_queue = <<>>
    /\ send_cur = NoChunk
    /\ send_left = 0
    /\ speaking = TRUE
    /\ feed_pc = "run"
    /\ next_text = 2
    /\ next_chunk = 1
    /\ g_intr_texts = 0
    /\ g_intr_chunks = 0
    /\ g_intr_sent = 0
    /\ g_sent_max = 0
    /\ g_last_frame = NoChunk
    /\ g_cleared = FALSE
    /\ vad_state = VAD_SILENCE
    /\ voice_start_time = 0
    /\ vad_triggered = FALSE
    /\ audio_levels = <<>>
    /\ vad_now = GREETING_ECHO_COOLDOWN_MS
    /\ cooldown_until_ms \in {0, GREETING_ECHO_COOLDOWN_MS,
                              GREETING_ECHO_COOLDOWN_MS + 2 * FRAME_MS}
    /\ \E k \in 0..MaxVoiceFrames, m \in 0..MaxQuietFrames,
          hi \in {VAD_DEFAULT_THRESHOLD, VAD_DEFAULT_THRESHOLD + 1,
                  VAD_THRESHOLD_MAX} :
            /\ in_frames = FramePattern(k, hi, m, VAD_THRESHOLD_MIN)
            /\ g_voice_frames = k
    /\ g_vad_fired = 0
    /\ g_frames_fed = 0
    /\ g_levels_seen = <<>>
    /\ g_threshold_x2 = 0
    /\ g_echo_dropped = 0
    /\ g_input_age = -1
    /\ g_texts_at_fragment = 0
    /\ g_fired_at = 0
    /\ g_silence_since_fire = TRUE
    /\ g_refired_early = FALSE
    /\ InitTurnIdle
    /\ finals_left = 0
    /\ InitProcess
    /\ InitConn
    /\ InitBinder
    /\ InitRecovery
    /\ InitHangup
    /\ InitFrames
    /\ InitEngine
    /\ InitSplit
    /\ InitStt

NextVAD ==
    \/ FeedFrame
    \/ BargeInEnd

SpecVAD ==
    InitVAD /\ [][NextVAD]_vars

(***************************************************************************)
(* Turn controller: greeting, caller finals, _stt_loop, agent, ticker and  *)
(* VAD barge-in, with time, and the outbound path in one step.             *)
(***************************************************************************)
InitCall ==
    /\ InitOutbound
    /\ InitFeedIdle
    /\ InitTurn
    /\ InitProcess
    /\ InitConn
    /\ InitBinder
    /\ InitRecovery
    /\ InitHangup
    /\ InitFrames
    /\ InitEngine
    /\ InitSplit
    /\ InitStt

NextTurn ==
    \/ Greeting
    \/ \E raw \in RawFinals : Final(raw)
    \/ \E eot \in EotValues : SttLoopStep(eot)
    \/ \E eot \in EotValues : SttIntrEnd(eot)
    \/ \E p \in {"stt", "tick"}, n \in 0..1 : AgentReturn(p, n)
    \/ \E p \in {"stt", "tick"} : AgentTimeout(p)
    \/ TickerWake
    \/ Advance
    \/ PlayOut
    \/ BargeIn
    \/ BargeInEnd

SpecTurn ==
    InitCall /\ [][NextTurn]_vars

\* C1: after an interrupt no media frame is sent whose audio comes from a text
\* that was sent to TTS (queued or in synthesis) before that interrupt.
C1_NoStaleAudioAfterInterrupt ==
    g_last_frame # NoChunk => g_last_frame.text > g_intr_texts

\* C2: every media frame sent after a clear belongs to a chunk strictly later
\* than any chunk with a frame before the clear, and to a chunk that arrived
\* on the output queue after the interrupt.
C2_FramesAfterClearAreLater ==
    (g_cleared /\ g_last_frame # NoChunk) =>
        /\ g_last_frame.seq > g_intr_sent
        /\ g_last_frame.seq > g_intr_chunks

\* C3: with speaking=true and outside the cooldown, k frames at or above the
\* threshold followed by m frames below it fire the interrupt exactly once
\* when k x 20 ms >= 200 ms and not at all when k x 20 ms < 200 ms, never
\* before 200 ms of voice, and never again before the VAD returned to SILENCE.
C3_InterruptExactlyOnceAt200ms ==
    (cooldown_until_ms <= GREETING_ECHO_COOLDOWN_MS) =>
        /\ (in_frames = <<>> /\ feed_pc = "run") =>
              g_vad_fired = (IF g_voice_frames * FRAME_MS >= VAD_INTERRUPT_DURATION_MS
                             THEN 1 ELSE 0)
        /\ g_vad_fired > 0 => g_fired_at * FRAME_MS >= VAD_INTERRUPT_DURATION_MS
        /\ ~g_refired_early

\* C4: every committed turn is the single-space concatenation, in arrival
\* order, of all fragments (finals that are not blank and not made only of
\* silence markers) received outside the greeting cooldown since the previous
\* commit: none is dropped, duplicated or reordered.
C4_TurnIsAllFragmentsSinceCommit ==
    g_turn = JoinSpace(g_turn_arrived)

C6_FallbackWithinOneTick ==
    turn_buffer # <<>> =>
        /\ last_transcript_age <= SILENCE_FALLBACK_DELAY_DS + TICK_DS
        /\ BufferAge <= MAX_BUFFER_AGE_DS + TICK_DS

\* C7: once the agent has finished speaking a turn and no fragment or barge-in
\* follows, the follow-up is emitted exactly once, not before 5 s and not
\* later than 5 s plus one tick.
C7_FollowupOnceAfterFiveSeconds ==
    /\ g_played_age > NO_INPUT_TIMEOUT_DS + TICK_DS => g_followups = 1
    /\ g_played_age # -1 => g_followups <= 1
    /\ ~g_early_followup

C9_TimeoutSpeaksApologyAndReleases ==
    [][/\ stt_agent_elapsed <= AGENT_TIMEOUT_DS
       /\ tick_agent_elapsed <= AGENT_TIMEOUT_DS
       /\ \A p \in {"stt", "tick"} :
             AgentTimeout(p) =>
                /\ tts_text_queue' = tts_text_queue \o
                       <<[id |-> next_text, kind |-> "apology"],
                         [id |-> next_text + 1, kind |-> "apology"]>>
                /\ speaking'
                /\ IF p = "stt"
                   THEN stt_pc' = "idle" /\ stt_agent_elapsed' = -1
                   ELSE tick_pc' = "sleep" /\ tick_agent_elapsed' = -1
      ]_vars

\* C9 witness: after a timeout a later turn was committed and the agent's
\* answer to it is queued to TTS.
C9_TurnAfterTimeoutAnswered ==
    /\ g_timeouts >= 1
    /\ tts_text_queue # <<>>
    /\ tts_text_queue[Len(tts_text_queue)].kind = "response"

(***************************************************************************)
(* Several sessions in one server process, concurrent or one after the     *)
(* other.                                                                  *)
(***************************************************************************)
InitSessions ==
    /\ InitOutbound
    /\ InitFeedIdle
    /\ InitTurnIdle
    /\ finals_left = 0
    /\ \E mode \in AgentModes : InitProcessIn(mode)
    /\ InitConn
    /\ InitBinder
    /\ InitRecovery
    /\ InitHangup
    /\ InitFrames
    /\ InitEngine
    /\ InitSplit
    /\ InitStt

NextSessions ==
    \/ \E s \in Sessions, lead \in BOOLEAN : on_session_start(s, lead)
    \/ \E s \in Sessions : SessGreeting(s)
    \/ \E s \in Sessions : SessCommitTurn(s)
    \/ \E s \in Sessions, outcome \in EndOutcomes, notes \in EndNotes :
           end_call(s, outcome, notes)
    \/ \E s \in Sessions, response \in Responses : SessAgentReturn(s, response)
    \/ \E s \in Sessions : on_session_end(s)

SpecSessions ==
    InitSessions /\ [][NextSessions]_vars

(***************************************************************************)
(* C10: session-scoped state is never shared across sessions.  The EOT     *)
(* history a session's prediction is made from holds only that session's   *)
(* messages, the call context a session's hangup decision reads is its     *)
(* own, and a session is marked for hangup only after its own agent called *)
(* end_call or said goodbye.                                               *)
(***************************************************************************)
C10_SessionStateNotShared ==
    /\ ~g_foreign_history
    /\ ~g_foreign_context
    /\ \A s \in Sessions : should_hangup[s] => g_own_end[s]

(***************************************************************************)
(* C20: when a completed agent run holds an end_call(outcome, notes) tool  *)
(* call, the session is marked should_hangup and the outcome and the notes *)
(* are recorded in the context of that session, in the sales and in the    *)
(* healthcare mode.                                                        *)
(***************************************************************************)
SessionContext(s) ==
    IF agent_mode = "healthcare" THEN healthcare_context[s] ELSE call_context[s]

C20_EndCallRecorded ==
    \A s \in Sessions :
        g_last_run[s].called =>
            /\ should_hangup[s]
            /\ SessionContext(s).outcome = g_last_run[s].outcome
            /\ g_last_run[s].notes # "" =>
                   \E i \in 1..Len(SessionContext(s).notes) :
                       SessionContext(s).notes[i] = g_last_run[s].notes

(***************************************************************************)
(* A provider connection with its session's tasks.                         *)
(***************************************************************************)
InitConnection ==
    /\ InitOutbound
    /\ InitFeedIdle
    /\ InitTurnIdle
    /\ finals_left = 0
    /\ InitProcess
    /\ InitConn
    /\ InitBinder
    /\ InitRecovery
    /\ InitHangup
    /\ InitFrames
    /\ InitEngine
    /\ InitSplit
    /\ InitStt

NextConn ==
    \/ \E event \in ProviderFrames : ReceiveFrame(event)
    \/ Disconnect
    \/ ReceiveDisconnect
    \/ FeedAudio
    \/ \E commit \in BOOLEAN : ConnSttEvent(commit)
    \/ \E p \in {"stt", "tick"}, response \in BOOLEAN : ConnAgentReturn(p, response)
    \/ ConnTickCommit
    \/ ConnSttEnd
    \/ ConnTtsGet
    \/ \E ok \in BOOLEAN : ConnTtsGenerated(ok)
    \/ ConnMainGet
    \/ \E outcome \in SendOutcomes : ConnSend(outcome)
    \/ ConnMainTimeout
    \/ ConnMainGrace
    \/ ConnCleanup
    \/ ConnFinish

SpecConn ==
    InitConnection /\ [][NextConn]_vars

(***************************************************************************)
(* C11: after the provider's WebSocket has disconnected every task of the  *)
(* session terminates.  Stated on finite runs: once the socket is closed   *)
(* and no task can take a step any more, every task has terminated.        *)
(***************************************************************************)
C11_AllTasksEndAfterDisconnect ==
    (ws_state = "closed" /\ ~ENABLED NextConn) => AllTasksDone

(***************************************************************************)
(* C12: when a started session has ended, by a stop event or by a          *)
(* disconnect, the session-end handling has run exactly once and the call  *)
(* is no longer in the registry of active sessions.                        *)
(***************************************************************************)
C12_SessionEndHandledOnce ==
    (session_set /\ recv_pc = "done") => (on_call_end_calls = 1 /\ ~registered)

(***************************************************************************)
(* C13: a malformed provider frame is discarded and the receiver keeps     *)
(* running.                                                                *)
(***************************************************************************)
C13_ReceiverSurvivesMalformedFrame ==
    recv_pc # "crashed"

(***************************************************************************)
(* Failures inside a call.  predict_eot is called by _stt_loop outside any *)
(* try/except: when it raises, the exception leaves the async for, the     *)
(* finally clause cancels silence_checker (and with it an agent invocation *)
(* the ticker is awaiting) and _stt_loop ends.  The fragment has been put  *)
(* in the buffer before the call.                                          *)
(***************************************************************************)
EotFailure ==
    /\ stt_pc = "idle"
    /\ stt_queue # <<>>
    /\ stt_queue' = Tail(stt_queue)
    /\ LET transcript == Strip(Head(stt_queue)) IN
       /\ transcript # <<>>
       /\ ~IsSilenceIndicator(transcript)
       /\ cooldown_left = 0
       /\ ~speaking
       /\ turn_buffer' = AppendFragment(turn_buffer, transcript)
       /\ buffer_start_age' = IF turn_buffer = <<>> THEN 0 ELSE buffer_start_age
       /\ g_arrived' = Append(g_arrived, transcript)
    /\ last_transcript_age' = 0
    /\ stt_pc' = "failed"
    /\ tick_pc' = "cancelled"
    /\ tick_agent_elapsed' = -1
    /\ UNCHANGED <<ttsVars, sendVars, speaking, feed_pc, pipeGhost, vadVars, vadGhost>>
    /\ UNCHANGED <<cooldown_left, call_elapsed, last_agent_spoke_age, tick_left,
                   stt_agent_elapsed>>
    /\ UNCHANGED <<waiting_for_response, no_input_fallback_triggered>>
    /\ UNCHANGED <<greet_pc, finals_left, stt_cur, g_turn, g_turn_arrived, g_commits, g_runs, wdGhost>>
    /\ UNCHANGED offCall

\* the same after _handle_interrupt returned
EotFailureAfterInterrupt ==
    /\ stt_pc = "intr"
    /\ speaking' = FALSE
    /\ turn_buffer' = <<stt_cur>>
    /\ buffer_start_age' = 0
    /\ last_transcript_age' = 0
    /\ g_arrived' = Append(g_arrived, stt_cur)
    /\ stt_cur' = <<>>
    /\ stt_pc' = "failed"
    /\ tick_pc' = "cancelled"
    /\ tick_agent_elapsed' = -1
    /\ UNCHANGED <<ttsVars, sendVars, feed_pc, pipeGhost, vadVars, vadGhost>>
    /\ UNCHANGED <<cooldown_left, call_elapsed, last_agent_spoke_age, tick_left,
                   stt_agent_elapsed>>
    /\ UNCHANGED <<waiting_for_response, no_input_fallback_triggered>>
    /\ UNCHANGED <<greet_pc, stt_queue, finals_left, g_turn, g_turn_arrived, g_commits, g_runs, wdGhost>>
    /\ UNCHANGED offCall

\* agent_handler: what is returned when the agent run raises
TroubleResponse ==
    [n |-> TROUBLE_SENTENCES, kind |-> "trouble"]

(***************************************************************************)
(* agent_handler: the agent run raises; except Exception returns "I'm      *)
(* having a bit of trouble. Could you repeat that?", which                 *)
(* process_buffered_turn speaks like any response.                         *)
(***************************************************************************)
AgentError(p) ==
    /\ InAgent(p)
    /\ AgentElapsed(p) <= MaxAgentLatency
    /\ Resume(p, TroubleResponse.n, TroubleResponse.kind)
    /\ UNCHANGED g_timeouts
    /\ UNCHANGED offCall

NextFail ==
    \/ NextTurn
    \/ EotFailure
    \/ EotFailureAfterInterrupt
    \/ \E p \in {"stt", "tick"} : AgentError(p)

SpecFail ==
    InitCall /\ [][NextFail]_vars

(***************************************************************************)
(* C14: a failure of the EOT classifier on a fragment is treated as        *)
(* probability 0: the turn controller and its ticker keep running, so the  *)
(* buffered fragment is still committed by a fallback.                     *)
(***************************************************************************)
C14_ClassifierFailureKeepsControllerRunning ==
    stt_pc # "failed" /\ tick_pc # "cancelled"

(***************************************************************************)
(* C15: the only failure utterance sent to TTS is the agent-timeout        *)
(* apology; no other failure is spoken.                                    *)
(***************************************************************************)
C15_OnlyTimeoutApologySpoken ==
    \A i \in 1..Len(tts_text_queue) : tts_text_queue[i].kind # "trouble"

(***************************************************************************)
(* The thread binder used by one caller at a time: every call runs to its  *)
(* end before the next one starts.                                         *)
(***************************************************************************)
InitThreads ==
    /\ InitOutbound
    /\ InitFeedIdle
    /\ InitTurnIdle
    /\ finals_left = 0
    /\ InitProcess
    /\ InitConn
    /\ InitBinder
    /\ InitRecovery
    /\ InitHangup
    /\ InitFrames
    /\ InitEngine
    /\ InitSplit
    /\ InitStt

NextBinderSeq ==
    \/ \E k \in Keys, force_new \in BOOLEAN : BinderBegin(1, k, force_new)
    \/ deactivate_thread(1)
    \/ BinderSelect(1)
    \/ BinderInsert(1)

SpecBinderSeq ==
    InitThreads /\ [][NextBinderSeq]_vars

(***************************************************************************)
(* C16: for any key, every get_or_create call returns the id the previous  *)
(* call for that key returned, and every force_new call, the first and any *)
(* later one, returns an id that was never active for the key before.      *)
(***************************************************************************)
C16_StableUntilForceNew ==
    \A c \in Callers :
        LET r == bind_result[c] IN
        r.status # "none" =>
            /\ r.status = "ok"
            /\ (r.op = "get_or_create" /\ r.bound # 0) => r.thread_id = r.bound
            /\ r.op = "force_new" => r.thread_id \notin r.prior

(***************************************************************************)
(* Concurrent get_or_create calls, each on its own sqlite connection.      *)
(***************************************************************************)
NextBinderConc ==
    \/ \E c \in Callers, k \in Keys : BinderBegin(c, k, FALSE)
    \/ \E c \in Callers : BinderSelect(c)
    \/ \E c \in Callers : BinderInsert(c)

SpecBinderConc ==
    InitThreads /\ [][NextBinderConc]_vars

(***************************************************************************)
(* C17: concurrent get_or_create calls for a key all succeed, return the   *)
(* same thread id, and leave exactly one active mapping for the key.       *)
(***************************************************************************)
C17_ConcurrentCreateIsAtomic ==
    /\ \A c \in Callers : bind_result[c].status # "IntegrityError"
    /\ \A c, d \in Callers :
           (/\ bind_result[c].status = "ok"
            /\ bind_result[d].status = "ok"
            /\ bind_result[c].key = bind_result[d].key)
           => bind_result[c].thread_id = bind_result[d].thread_id
    /\ \A k \in Keys : Cardinality(ActiveRows(thread_mappings, k)) <= 1

(***************************************************************************)
(* Calls to and from phone numbers, several at a time or one after the     *)
(* other.                                                                  *)
(***************************************************************************)
NextPhone ==
    \/ \E s \in Sessions, p \in Keys, campaign \in BOOLEAN : PhoneCallStart(s, p, campaign)
    \/ \E s \in Sessions : AgentHandlerThread(s)
    \/ \E s \in Sessions : PhoneCallEnd(s)

SpecPhone ==
    InitThreads /\ [][NextPhone]_vars

(***************************************************************************)
(* C18: the agent runs of all calls with one phone number use one thread   *)
(* id: a second call with a number invokes the agent with the id the first *)
(* call with that number used.                                             *)
(***************************************************************************)
C18_ThreadResolvedFromPhone ==
    \A p \in Keys : Cardinality(g_invoked[p]) <= 1

(***************************************************************************)
(* The recovery handler of a campaign: calls are registered, their partial *)
(* outcome is updated, and they end normally or by a disconnect.           *)
(***************************************************************************)
InitRec ==
    /\ InitOutbound
    /\ InitFeedIdle
    /\ InitTurnIdle
    /\ finals_left = 0
    /\ InitProcess
    /\ InitConn
    /\ InitBinder
    /\ InitRecovery
    /\ InitHangup
    /\ InitFrames
    /\ InitEngine
    /\ InitSplit
    /\ InitStt

NextRecovery ==
    \/ \E c \in RecCalls, lead \in Leads : register_call(c, lead)
    \/ \E c \in RecCalls, outcome \in PartialOutcomes \ {"none"} : update_outcome(c, outcome)
    \/ \E c \in RecCalls, reason \in DisconnectReason, duration \in Durations :
           handle_disconnect(c, reason, duration)
    \/ \E c \in RecCalls : handle_normal_end(c)

SpecRecovery ==
    InitRec /\ [][NextRecovery]_vars

InitHang ==
    /\ InitOutbound
    /\ InitFeedIdle
    /\ InitTurnIdle
    /\ finals_left = 0
    /\ InitProcess
    /\ InitConn
    /\ InitBinder
    /\ InitRecovery
    /\ InitHangup
    /\ InitFrames
    /\ InitEngine
    /\ InitSplit
    /\ InitStt

NextHangup ==
    \/ \E word_count \in HangWordCounts, ends \in BOOLEAN : HangupResponse(word_count, ends)
    \/ HangupAdvance
    \/ \E i \in 1..MaxHangResponses : hangup_after_delay(i)

SpecHangup ==
    InitHang /\ [][NextHangup]_vars

(***************************************************************************)
(* C21: within a session the end-call request is issued at most once, and  *)
(* not before max(3 s, word_count / 2.5) + 1 s have passed since the       *)
(* response that set should_hangup, whatever turns and responses follow.   *)
(***************************************************************************)
C21_HangupFiresOnce ==
    /\ hang_requests <= 1
    /\ ~g_hang_early

(***************************************************************************)
(* The inbound frames of one connection.                                   *)
(***************************************************************************)
InitMedia ==
    /\ InitOutbound
    /\ InitFeedIdle
    /\ InitTurnIdle
    /\ finals_left = 0
    /\ InitProcess
    /\ InitConn
    /\ InitBinder
    /\ InitRecovery
    /\ InitHangup
    /\ InitFrames
    /\ InitEngine
    /\ InitSplit
    /\ InitStt

NextMedia ==
    \/ \E payload \in MediaPayloads : ReceiveMedia(payload)
    \/ ReceiveEnd
    \/ FeedStt

SpecMedia ==
    InitMedia /\ [][NextMedia]_vars

\* the ids of the frames still waiting on audio_queue
QueuedFrames ==
    SelectSeq(media_queue, LAMBDA id : id # 0)

\* the elements of a sequence
Range(s) ==
    {s[i] : i \in 1..Len(s)}

(***************************************************************************)
(* C22: every inbound media frame is either put on the queue exactly once, *)
(* in arrival order, and then handed to both VAD and STT, or its discard   *)
(* is logged; no frame disappears without a trace.                         *)
(***************************************************************************)
C22_NoFrameLostSilently ==
    /\ \A id \in 1..media_in : id \in Range(g_enqueued) \/ id \in discard_log
    /\ \A i, j \in 1..Len(g_enqueued) : i < j => g_enqueued[i] < g_enqueued[j]
    /\ vad_seen \o QueuedFrames = g_enqueued
    /\ stt_seen = vad_seen

(***************************************************************************)
(* The adaptive threshold over long series of frames: k frames at level hi *)
(* followed by m frames at level lo, while the agent is speaking and no    *)
(* greeting cooldown is set.                                               *)
(***************************************************************************)
\* RMS levels whose 1.5-fold lies below, inside and above the clamp
LoudLevels ==
    {150, 600, 2000}

SoftLevel ==
    100

InitThreshold ==
    /\ tts_text_queue = MakeTexts(1, 1, "response")
    /\ tts_gen = NoText
    /\ audio_output_queue = <<>>
    /\ send_cur = NoChunk
    /\ send_left = 0
    /\ speaking = TRUE
    /\ feed_pc = "run"
    /\ next_text = 2
    /\ next_chunk = 1
    /\ g_intr_texts = 0
    /\ g_intr_chunks = 0
    /\ g_intr_sent = 0
    /\ g_sent_max = 0
    /\ g_last_frame = NoChunk
    /\ g_cleared = FALSE
    /\ vad_state = VAD_SILENCE
    /\ voice_start_time = 0
    /\ vad_triggered = FALSE
    /\ audio_levels = <<>>
    /\ vad_now = GREETING_ECHO_COOLDOWN_MS
    /\ cooldown_until_ms = 0
    /\ \E k \in {0, 8, MaxLoudFrames},
          m \in {VAD_MIN_SAMPLES - 9, VAD_MIN_SAMPLES - 1, MaxSoftFrames},
          hi \in LoudLevels :
            /\ in_frames = FramePattern(k, hi, m, SoftLevel)
            /\ g_voice_frames = k
    /\ g_vad_fired = 0
    /\ g_frames_fed = 0
    /\ g_levels_seen = <<>>
    /\ g_threshold_x2 = 0
    /\ g_echo_dropped = 0
    /\ g_input_age = -1
    /\ g_texts_at_fragment = 0
    /\ g_fired_at = 0
    /\ g_silence_since_fire = TRUE
    /\ g_refired_early = FALSE
    /\ InitTurnIdle
    /\ finals_left = 0
    /\ InitProcess
    /\ InitConn
    /\ InitBinder
    /\ InitRecovery
    /\ InitHangup
    /\ InitFrames
    /\ InitEngine
    /\ InitSplit
    /\ InitStt

SpecThreshold ==
    InitThreshold /\ [][NextVAD]_vars

\* the last n elements of a sequence (all of them when it is shorter)
LastN(s, n) ==
    SubSeq(s, Max2(1, Len(s) - n + 1), Len(s))

(***************************************************************************)
(* C23: at every inbound frame the VAD threshold is 500 when fewer than 50 *)
(* RMS samples have been seen, and otherwise 1.5 times the 85th percentile *)
(* of the most recent at most 1500 samples, clamped to [300, 2000].        *)
(* Thresholds are compared doubled, which keeps the factor 1.5 integral.   *)
(***************************************************************************)
C23_AdaptiveThreshold ==
    g_frames_fed > 0 =>
        g_threshold_x2 =
            IF Len(g_levels_seen) < 50
            THEN 2 * 500
            ELSE LET p85x3 == 3 * Percentile85(LastN(g_levels_seen, 1500))
                 IN  IF p85x3 < 2 * 300 THEN 2 * 300
                     ELSE IF p85x3 > 2 * 2000 THEN 2 * 2000
                     ELSE p85x3

\* the window has turned over and the threshold is the adaptive one
C23_Witness ==
    /\ Len(g_levels_seen) > VAD_WINDOW
    /\ g_threshold_x2 = 3 * SoftLevel * 2

(***************************************************************************)
(* A TTS engine of any of the four kinds, with barge-ins and direct calls  *)
(* of clear_queue.                                                         *)
(***************************************************************************)
InitEngines ==
    /\ InitOutbound
    /\ InitFeedIdle
    /\ InitTurnIdle
    /\ finals_left = 0
    /\ InitProcess
    /\ InitConn
    /\ InitBinder
    /\ InitRecovery
    /\ InitHangup
    /\ InitFrames
    /\ InitEngineOf(TtsEngines)
    /\ InitSplit
    /\ InitStt

NextEngine ==
    \/ EngSendText
    \/ EngClose
    \/ EngReceive
    \/ EngGenerated
    \/ ClearQueue
    \/ EngBargeIn
    \/ EngBargeInEnd

SpecEngine ==
    InitEngines /\ [][NextEngine]_vars

(***************************************************************************)
(* C24: clear_queue is idempotent.  A call leaves the text queue empty and *)
(* the synthesis in flight as it was, and a call that directly follows     *)
(* another changes nothing.                                                *)
(***************************************************************************)
C24_ClearQueueIdempotent ==
    [][ClearQueue =>
          /\ eng_text_queue' = <<>>
          /\ eng_generating' = eng_generating
          /\ eng_closed' = eng_closed
          /\ eng_out' = eng_out
          /\ (g_clear_row >= 1 => eng_text_queue' = eng_text_queue)]_vars

\* a second call right after a first that removed pending texts, with a
\* synthesis in flight
C24_Witness ==
    /\ g_clear_row = 2
    /\ g_clear_removed >= 2
    /\ eng_generating # 0

(***************************************************************************)
(* C26: on every barge-in, whatever engine is configured, the four         *)
(* interrupt steps all run, in this order: the engine's pending text queue *)
(* is cleared, the outbound queue is drained, clear is sent to the         *)
(* provider, speaking is set to false.                                     *)
(***************************************************************************)
C26_AllInterruptSteps ==
    (g_bargeins > 0 /\ eng_intr = "idle") =>
        eng_steps = <<"clear_text_queue", "drain_output_queue", "send_clear",
                      "speaking_false">>

(***************************************************************************)
(* The splitter on every text of at most MaxTokens tokens.                 *)
(***************************************************************************)
InitSplitter ==
    /\ InitOutbound
    /\ InitFeedIdle
    /\ InitTurnIdle
    /\ finals_left = 0
    /\ InitProcess
    /\ InitConn
    /\ InitBinder
    /\ InitRecovery
    /\ InitHangup
    /\ InitFrames
    /\ InitEngine
    /\ sp_text \in TextsUpTo(MaxTokens)
    /\ sp_pc = "text"
    /\ sp_chunks = <<>>
    /\ sp_again = <<>>
    /\ InitStt

NextSplit ==
    \/ SplitResponse
    \/ Resplit

SpecSplit ==
    InitSplitter /\ [][NextSplit]_vars

(***************************************************************************)
(* C25: for a well-formed response text, joining split(text) with single   *)
(* spaces and splitting the result again gives split(text).                *)
(***************************************************************************)
C25_SplitRoundtrip ==
    sp_pc = "resplit" => sp_again = sp_chunks

(***************************************************************************)
(* A call in mid-conversation: the ticker has committed a turn, a fragment *)
(* arrived and was buffered while the agent was answering it (or none      *)
(* did), and the agent's one-sentence answer has just been queued to TTS.  *)
(* One final of the caller's finals has been used.                         *)
(***************************************************************************)
InitMidTurn ==
    /\ tts_text_queue = MakeTexts(1, 1, "response")
    /\ tts_gen = NoText
    /\ audio_output_queue = <<>>
    /\ send_cur = NoChunk
    /\ send_left = 0
    /\ speaking = TRUE
    /\ feed_pc = "run"
    /\ next_text = 2
    /\ next_chunk = 1
    /\ g_intr_texts = 0
    /\ g_intr_chunks = 0
    /\ g_intr_sent = 0
    /\ g_sent_max = 0
    /\ g_last_frame = NoChunk
    /\ g_cleared = FALSE
    /\ InitFeedIdle
    /\ greet_pc = "done"
    /\ cooldown_left = 0
    /\ call_elapsed = GREETING_DURATION_DS
    /\ stt_queue = <<>>
    /\ finals_left = MaxFinals - 1
    /\ stt_pc = "idle"
    /\ stt_cur = <<>>
    /\ \E buffered \in BOOLEAN :
          /\ turn_buffer = IF buffered THEN <<<<"a">>>> ELSE <<>>
          /\ g_arrived = turn_buffer
          /\ last_transcript_age = IF buffered THEN 0 ELSE -1
          /\ buffer_start_age = IF buffered THEN 0 ELSE -1
    /\ last_agent_spoke_age = -1
    /\ waiting_for_response = TRUE
    /\ no_input_fallback_triggered = FALSE
    /\ tick_pc = "sleep"
    /\ tick_left = TICK_DS
    /\ stt_agent_elapsed = -1
    /\ tick_agent_elapsed = -1
    /\ g_turn = <<"a">>
    /\ g_turn_arrived = <<<<"a">>>>
    /\ g_commits = 1
    /\ g_runs = 1
    /\ g_wd_fired = FALSE
    /\ g_resp_since = TRUE
    /\ g_done_since = FALSE
    /\ g_refire_ok = TRUE
    /\ g_refire_played = TRUE
    /\ g_followups = 0
    /\ g_played_age = -1
    /\ g_early_followup = FALSE
    /\ g_timeouts = 0
    /\ InitProcess
    /\ InitConn
    /\ InitBinder
    /\ InitRecovery
    /\ InitHangup
    /\ InitFrames
    /\ InitEngine
    /\ InitSplit
    /\ InitStt

NextMidTurn ==
    \/ \E raw \in RawFinals : Final(raw)
    \/ \E eot \in EotValues : SttLoopStep(eot)
    \/ \E eot \in EotValues : SttIntrEnd(eot)
    \/ \E p \in {"stt", "tick"}, n \in 0..1 : AgentReturn(p, n)
    \/ \E p \in {"stt", "tick"} : AgentTimeout(p)
    \/ TickerWake
    \/ Advance
    \/ PlayOut
    \/ BargeIn
    \/ BargeInEnd

SpecMidTurn ==
    InitMidTurn /\ [][NextMidTurn]_vars

\* the final at the head of the STT events is a fragment: not blank and no
\* silence indicator
FragmentAtHead ==
    /\ stt_queue # <<>>
    /\ Strip(Head(stt_queue)) # <<>>
    /\ ~IsSilenceIndicator(Strip(Head(stt_queue)))

\* a fragment arrives outside the greeting cooldown
FragmentArrives ==
    /\ FragmentAtHead
    /\ cooldown_left = 0

C28_CooldownSuppressesInput ==
    [][cooldown_left > 0 =>
          /\ feed_pc' = "intr" => feed_pc = "intr"
          /\ stt_pc' = "intr" => stt_pc = "intr"
          /\ g_cleared' = g_cleared
          /\ turn_buffer' \in {turn_buffer, <<>>}
          /\ \A eot \in EotValues :
                (SttLoopStep(eot) /\ FragmentAtHead) =>
                    /\ UNCHANGED <<turn_buffer, speaking, tts_text_queue,
                                   audio_output_queue, stt_pc, waiting_for_response>>
                    /\ g_echo_dropped' = g_echo_dropped + 1
      ]_vars

\* C28 witness: a fragment was dropped inside the cooldown, which still runs
C28_Witness ==
    /\ g_echo_dropped >= 1
    /\ cooldown_left > 0
    /\ turn_buffer = <<>>
    /\ ~g_cleared

(***************************************************************************)
(* C29: speaking returns to false when the agent's audio is fully drained, *)
(* without any caller input.  Stated on finite runs: when an agent turn    *)
(* has been played to its end, nothing is left in the TTS or outbound      *)
(* queues, and 5 s plus a tick have passed since with neither a fragment   *)
(* nor a barge-in, speaking is false.                                      *)
(***************************************************************************)
C29_SpeakingClearedAfterDrain ==
    (/\ g_played_age > NO_INPUT_TIMEOUT_DS + TICK_DS
     /\ tts_text_queue = <<>>
     /\ tts_gen = NoText
     /\ audio_output_queue = <<>>
     /\ send_cur = NoChunk) => ~speaking

(***************************************************************************)
(* C30: the no-input follow-up is emitted only when the last message of    *)
(* the conversation came from the agent, speaking is false, the turn       *)
(* buffer is empty, and at least 5 s have passed with neither a fragment   *)
(* nor a barge-in.                                                         *)
(***************************************************************************)
C30_FollowupOnlyAfterQuietFiveSeconds ==
    [][g_followups' = g_followups + 1 =>
          /\ next_text > g_texts_at_fragment
          /\ ~speaking
          /\ turn_buffer = <<>>
          /\ g_input_age = -1 \/ g_input_age >= NO_INPUT_TIMEOUT_DS
      ]_vars

(***************************************************************************)
(* C31: at most one agent invocation is in flight at any time: the task    *)
(* of _stt_loop and the task of silence_checker are never both suspended   *)
(* in agent_handler, so responses are queued in the order of the commits.  *)
(***************************************************************************)
C31_OneAgentInvocationInFlight ==
    ~(InAgent("stt") /\ InAgent("tick"))

(***************************************************************************)
(* C32: whenever agent audio (the opening greeting, a response or the      *)
(* follow-up) is queued in TTS, being synthesised, queued for output or    *)
(* being sent, speaking is true, so that the caller can interrupt it.      *)
(***************************************************************************)
C32_SpeakingWhileAudioPending ==
    (\/ tts_text_queue # <<>>
     \/ tts_gen # NoText
     \/ audio_output_queue # <<>>
     \/ send_cur # NoChunk) => speaking

(***************************************************************************)
(* C33: every committed turn is handed to the agent runtime exactly once,  *)
(* however soon after the start of the session it is committed: the agent  *)
(* runs started equal the turns committed.                                 *)
(***************************************************************************)
C33_EveryCommitRunsAgentOnce ==
    g_runs = g_commits

(***************************************************************************)
(* C34: there is at most one active mapping per key; a force_new call      *)
(* succeeds however many inactive mappings the key already has, leaving    *)
(* the id it returns as the key's active mapping; and no mapping is ever   *)
(* deleted or made active again.                                           *)
(***************************************************************************)
C34_OneActiveMappingForceNewSucceeds ==
    [][/\ \A k \in Keys : Cardinality(ActiveRows(thread_mappings', k)) <= 1
       /\ Len(thread_mappings') >= Len(thread_mappings)
       /\ \A i \in 1..Len(thread_mappings) :
             /\ thread_mappings'[i].thread_id = thread_mappings[i].thread_id
             /\ thread_mappings'[i].external = thread_mappings[i].external
             /\ thread_mappings[i].is_active = 0 => thread_mappings'[i].is_active = 0
       /\ \A c \in Callers :
             (bind_result'[c] # bind_result[c] /\ bind_result'[c].op = "force_new") =>
                 /\ bind_result'[c].status = "ok"
                 /\ ActiveRows(thread_mappings', bind_result'[c].key) # {}
                 /\ ActiveThread(thread_mappings', bind_result'[c].key)
                        = bind_result'[c].thread_id
      ]_vars

(***************************************************************************)
(* C35: the retry count of a lead never exceeds 2.  It changes only by a   *)
(* retry being scheduled, which adds exactly one, happens only below 2 and *)
(* sets the next attempt 300 s after now, or by a call of that lead ending *)
(* normally, which resets it; and every scheduled retry adds one.          *)
(***************************************************************************)
C35_RetryCountAtMostTwo ==
    [][/\ \A l \in Leads :
             /\ retry_counts'[l] <= 2
             /\ retry_counts'[l] # retry_counts[l] =>
                    \/ /\ retry_counts'[l] = retry_counts[l] + 1
                       /\ retry_counts[l] < 2
                       /\ rec_last'.scheduled
                       /\ rec_last'.retry_in = 300
                       /\ \E c \in RecCalls :
                             /\ active_calls[c].lead = l
                             /\ active_calls'[c] = NotRegistered
                    \/ /\ retry_counts'[l] = 0
                       /\ \E c \in RecCalls :
                             /\ handle_normal_end(c)
                             /\ active_calls[c].lead = l
       /\ \A c \in RecCalls, reason \in DisconnectReason, duration \in Durations :
             (handle_disconnect(c, reason, duration) /\ rec_last'.scheduled) =>
                 retry_counts'[active_calls[c].lead] = retry_counts[active_calls[c].lead] + 1
      ]_vars

\* C35 witness: a lead has had two retries scheduled and a further disconnect
\* that would otherwise be retried was not
C35_Witness ==
    /\ \E l \in Leads : retry_counts[l] = 2
    /\ rec_last.registered
    /\ rec_last.retries = 2
    /\ ~rec_last.scheduled
    /\ rec_last.reason = "timeout"
    /\ rec_last.duration >= MIN_DURATION_FOR_RETRY
    /\ rec_last.outcome = "none"

(***************************************************************************)
(* The STT adapter fed with every sequence of at most MaxSttChunks chunks. *)
(***************************************************************************)
InitSttAdapter ==
    /\ InitOutbound
    /\ InitFeedIdle
    /\ InitTurnIdle
    /\ finals_left = 0
    /\ InitProcess
    /\ InitConn
    /\ InitBinder
    /\ InitRecovery
    /\ InitHangup
    /\ InitFrames
    /\ InitEngine
    /\ InitSplit
    /\ InitStt

NextStt ==
    \/ \E rms \in RmsLevels, ms \in ChunkMs : WAddAudio(rms, ms)
    \/ WClose
    \/ WReceive
    \/ \E has_text \in BOOLEAN : WTranscribed(has_text)
    \/ WNext

SpecStt ==
    InitSttAdapter /\ [][NextStt]_vars

(***************************************************************************)
(* C36: add_audio requests recognition exactly when a chunk at or above    *)
(* 500 was seen since the last request and the chunks since it have all    *)
(* been below 500 for at least 800 ms, counted from the arrival of the     *)
(* first of them (a chunk at or above 500 restarts the count); a           *)
(* recognizer run is started, and a transcript yielded, only for at least  *)
(* 300 ms of audio.                                                        *)
(***************************************************************************)
C36_RequestAfterSpeechThenSilence ==
    [][/\ \A rms \in RmsLevels, ms \in ChunkMs :
             WAddAudio(rms, ms) =>
                 (g_add_requested' <=>
                      /\ g_speech_since_request
                      /\ rms < 500
                      /\ g_quiet_ms # -1
                      /\ g_quiet_ms + ms >= 800)
       /\ w_pc' = "transcribing" => AudioMs(w_run') >= 300
       /\ w_events' # w_events => (w_pc = "transcribing" /\ AudioMs(w_run) >= 300)
      ]_vars

\* C36 witness: a transcript was yielded for a run that add_audio requested
\* after speech and 800 ms below the threshold, and later less than 300 ms of
\* audio were dropped without a run
C36_Witness ==
    /\ w_events > 0
    /\ g_short # {}

(***************************************************************************)
(* C37: when the event stream has ended, every chunk add_audio accepted    *)
(* was handed to a recognizer run (or was part of less than 300 ms of      *)
(* audio, which no run is made for).                                       *)
(***************************************************************************)
C37_CloseTranscribesRemainingAudio ==
    w_pc = "done" => g_accepted \subseteq (g_recognized \cup g_short)

\* the text is made of silence markers (and blanks between them) only
RECURSIVE OnlySilenceMarkers(_)
OnlySilenceMarkers(s) ==
    \/ s = <<>>
    \/ Head(s) = " " /\ OnlySilenceMarkers(Tail(s))
    \/ \E p \in SILENCE_PATTERNS :
           /\ Len(s) >= Len(p)
           /\ SubSeq(s, 1, Len(p)) = p
           /\ OnlySilenceMarkers(SubSeq(s, Len(p) + 1, Len(s)))

(***************************************************************************)
(* C38: outside the greeting cooldown, a non-blank final is suppressed if  *)
(* and only if it consists of silence markers only; a final with words     *)
(* beside a marker is kept as a fragment: it interrupts the agent, or is   *)
(* added to the buffer or to the committed turn.                           *)
(***************************************************************************)
C38_SuppressedIffOnlyMarkers ==
    [][\A eot \in EotValues :
          (/\ SttLoopStep(eot)
           /\ cooldown_left = 0
           /\ Strip(Head(stt_queue)) # <<>>) =>
              ((\/ stt_pc' = "intr"
                \/ turn_buffer' # turn_buffer
                \/ g_commits' = g_commits + 1)
               <=> ~OnlySilenceMarkers(Strip(Head(stt_queue))))
      ]_vars

(***************************************************************************)
(* C39: once close() has been called, the event stream of the TTS engine   *)
(* ends after the synthesis in flight, whatever calls of send_text,        *)
(* clear_queue and close came before: a closed engine whose stream has not *)
(* ended is never left idle, waiting on an empty text queue.               *)
(***************************************************************************)
C39_ClosedStreamTerminates ==
    (eng_closed /\ ~eng_done /\ eng_generating = 0) => eng_text_queue # <<>>

(***************************************************************************)
(* C40: the chunks that split_for_tts returns for a response, joined by    *)
(* single spaces, are the tokens of the response in the same order: none   *)
(* is dropped, duplicated or altered, sentences longer than                *)
(* MAX_CHUNK_LENGTH included.                                              *)
(***************************************************************************)
C40_SplitPreservesWords ==
    sp_pc # "text" => JoinChunks(sp_chunks) = sp_text
====
